---- MODULE Spec2Model ----
(***************************************************************************)
(* Model of the PVR native image codec of rwlib (natimage.pvr.cpp): the    *)
(* legacy header parser, the mipmap read loop, the writer, and the import  *)
(* and export paths between the PVR native image and native textures.      *)
(* Buffers obtained from PixelAllocate are tracked in a small heap so that *)
(* ownership and rollback can be checked.                                   *)
(***************************************************************************)
EXTENDS Integers, Sequences, FiniteSets, TLC

VARIABLES
    img,        \* the pvrNativeImage the handlers work on
    heap,       \* pixel buffers: id -> [live, data]
    stream,     \* the stream of the last stream call: [data, pos]
    tex,        \* the native texture of the last import / export call
    ret,        \* outcome of the last call: [op, ok, err]
    feedback,   \* acquireFeedback_t.hasDirectlyAcquired: "unassigned", "true", "false"
    trace,      \* allocator and check events of the last call, in program order
    warnings,   \* messages handed to PushWarning by the last call
    hdr,        \* outputs of the last readLegacyVersionHeader call
    codec,      \* a pvrColorDispatcher, its texel buffer and its last call
    lib,        \* the library's static state and its engines
    rwobjs,     \* the RwObjects of the engines
    calc,       \* inputs and outputs of the last format computation
    iface       \* an engine's warning settings, handler stack and sinks

vars == <<img, heap, stream, tex, ret, feedback, trace, warnings, hdr, codec, lib, rwobjs, calc, iface>>

\* The native image and what its handlers touch.
imageVars == <<img, heap, stream, tex, ret, feedback, trace, warnings, hdr>>

\* What the native image handlers never touch.
sideVars == <<codec, lib, rwobjs, calc, iface>>

----------------------------------------------------------------------------
(* Bounds of the model. *)

\* Largest value of the header's stored mipmap-count field (levels minus one).
MaxMip == 2

\* Largest number of levels a native texture hands over.
MaxTexLevels == 2

----------------------------------------------------------------------------
(* ePVRLegacyPixelFormat *)

ARGB_4444 == 0
ARGB_1555 == 1
RGB_565 == 2
RGB_555 == 3
RGB_888 == 4
ARGB_8888 == 5
ARGB_8332 == 6
I8 == 7
AI88 == 8
MONOCHROME == 9
V_Y1_U_Y0 == 10
Y1_V_Y0_U == 11
PVRTC2 == 12
PVRTC4 == 13
ARGB_4444_SEC == 16
ARGB_1555_SEC == 17
ARGB_8888_SEC == 18
RGB_565_SEC == 19
RGB_555_SEC == 20
RGB_888_SEC == 21
I8_SEC == 22
AI88_SEC == 23
PVRTC2_SEC == 24
PVRTC4_SEC == 25
BGRA_8888 == 26
DXT1 == 32
DXT2 == 33
DXT3 == 34
DXT4 == 35
DXT5 == 36
RGB332 == 37
AL_44 == 38
LVU_655 == 39
XLVU_8888 == 40
QWVU_8888 == 41
ABGR_2101010 == 42
ARGB_2101010 == 43
AWVU_2101010 == 44
GR_1616 == 45
VU_1616 == 46
ABGR_16161616 == 47
R_16F == 48
GR_1616F == 49
ABGR_16161616F == 50
R_32F == 51
GR_3232F == 52
ABGR_32323232F == 53
ETC == 54
A8 == 64
VU_88 == 65
L16 == 66
L8 == 67
AL_88 == 68
UYVY == 69
YUY2 == 70
EnumFormats ==
    { ARGB_4444, ARGB_1555, RGB_565, RGB_555, RGB_888, ARGB_8888, ARGB_8332, I8, AI88,
      MONOCHROME, V_Y1_U_Y0, Y1_V_Y0_U, PVRTC2, PVRTC4,
      ARGB_4444_SEC, ARGB_1555_SEC, ARGB_8888_SEC, RGB_565_SEC, RGB_555_SEC, RGB_888_SEC,
      I8_SEC, AI88_SEC, PVRTC2_SEC, PVRTC4_SEC, BGRA_8888,
      DXT1, DXT2, DXT3, DXT4, DXT5, RGB332, AL_44, LVU_655, XLVU_8888, QWVU_8888,
      ABGR_2101010, ARGB_2101010, AWVU_2101010, GR_1616, VU_1616, ABGR_16161616,
      R_16F, GR_1616F, ABGR_16161616F, R_32F, GR_3232F, ABGR_32323232F, ETC,
      A8, VU_88, L16, L8, AL_88, UYVY, YUY2 }

getPVRNativeImageRowAlignment == 1

\* ceil( width * depth / 8 ) rounded up to the row alignment.
getRasterDataRowSize(surfWidth, depth, alignment) ==
    LET bytes == (surfWidth * depth + 7) \div 8
    IN  ((bytes + alignment - 1) \div alignment) * alignment

\* The product of two 16-bit values as a pair of 16-bit halves.
mul16(a, b) ==
    LET p0 == a * (b % 256)
        p1 == a * (b \div 256)
        low == p0 + (p1 % 256) * 256
    IN  [ hi |-> low \div 65536 + p1 \div 256, lo |-> low % 65536 ]

uint32_lo(v) == v % 65536

uint32_hi(v) == (v \div 65536) % 65536

\* The 32-bit pattern with the given halves.
uint32_of(hi, lo) == (IF hi >= 32768 THEN hi - 65536 ELSE hi) * 65536 + lo

\* uint32 multiplication: the product modulo 2^32, on 32-bit patterns.
uint32_mul(a, b) ==
    LET low == mul16(uint32_lo(a), uint32_lo(b))
        cross == mul16(uint32_hi(a), uint32_lo(b)).lo + mul16(uint32_lo(a), uint32_hi(b)).lo
    IN  uint32_of((low.hi + cross) % 65536, low.lo)

\* The quotient and the remainder of an unsigned 32-bit pattern by a power
\* of two up to 2^30.
uint32_div(v, d) ==
    IF v >= 0 THEN v \div d ELSE ((v + 2147483647) + 1) \div d + 2 * (1073741824 \div d)

uint32_mod(v, d) == IF v >= 0 THEN v % d ELSE ((v + 2147483647) + 1) % d

\* rowSize times height, as the uint32 the callers keep it in.
getRasterDataSizeByRowSize(rowSize, height) == uint32_mul(rowSize, height)

getPVRNativeImageRasterDataRowSize(surfWidth, depth) ==
    getRasterDataRowSize(surfWidth, depth, getPVRNativeImageRowAlignment)

getPVRLegacyPixelFormatType(format) ==
    IF format \in { ARGB_4444, ARGB_1555, RGB_565, RGB_555, RGB_888, ARGB_8888, ARGB_8332,
                    ARGB_4444_SEC, ARGB_1555_SEC, ARGB_8888_SEC, RGB_565_SEC, RGB_555_SEC,
                    RGB_888_SEC, BGRA_8888, RGB332, ABGR_2101010, ARGB_2101010, GR_1616,
                    ABGR_16161616, R_16F, GR_1616F, ABGR_16161616F, R_32F, GR_3232F,
                    ABGR_32323232F }
    THEN "RGBA"
    ELSE IF format \in { I8, AI88, MONOCHROME, I8_SEC, AI88_SEC, AL_44, L16, L8, AL_88 }
    THEN "LUMINANCE"
    ELSE IF format \in { V_Y1_U_Y0, Y1_V_Y0_U, PVRTC2, PVRTC4, PVRTC2_SEC, PVRTC4_SEC,
                         DXT1, DXT2, DXT3, DXT4, DXT5, ETC, UYVY, YUY2 }
    THEN "COMPRESSED"
    ELSE "UNKNOWN"

doesPVRLegacyFormatHaveAlphaChannel(pixelFormat) ==
    pixelFormat \in { ARGB_4444, ARGB_4444_SEC, ARGB_1555, ARGB_1555_SEC, ARGB_8888,
                      ARGB_8888_SEC, ARGB_8332, AI88, AI88_SEC, PVRTC2, PVRTC2_SEC,
                      PVRTC4, PVRTC4_SEC, BGRA_8888, AL_44, ABGR_2101010, ARGB_2101010,
                      AWVU_2101010, ABGR_16161616, ABGR_16161616F, ABGR_32323232F,
                      A8, AL_88 }

\* Returns 0 where the source runs into assert( 0 ).
getPVRLegacyFormatDepth(format) ==
    IF format \in { ARGB_4444, ARGB_1555, RGB_565, RGB_555, ARGB_8332, AI88, ARGB_4444_SEC,
                    ARGB_1555_SEC, RGB_565_SEC, RGB_555_SEC, AI88_SEC, LVU_655, R_16F,
                    VU_88, L16, AL_88 }
    THEN 16
    ELSE IF format \in { RGB_888, RGB_888_SEC }
    THEN 24
    ELSE IF format \in { ARGB_8888, ARGB_8888_SEC, BGRA_8888, XLVU_8888, QWVU_8888,
                         ABGR_2101010, ARGB_2101010, AWVU_2101010, GR_1616, VU_1616,
                         GR_1616F, R_32F }
    THEN 32
    ELSE IF format \in { I8, V_Y1_U_Y0, Y1_V_Y0_U, UYVY, YUY2, I8_SEC, DXT2, DXT3, DXT4,
                         DXT5, RGB332, AL_44, A8, L8 }
    THEN 8
    ELSE IF format = MONOCHROME
    THEN 1
    ELSE IF format \in { PVRTC2, PVRTC2_SEC }
    THEN 2
    ELSE IF format \in { PVRTC4, PVRTC4_SEC, DXT1, ETC }
    THEN 4
    ELSE IF format \in { ABGR_16161616, ABGR_16161616F, GR_3232F }
    THEN 64
    ELSE IF format = ABGR_32323232F
    THEN 128
    ELSE 0

getPVRLegacyFormatDXTType(pixelFormat) ==
    IF pixelFormat = DXT1 THEN 1
    ELSE IF pixelFormat = DXT2 THEN 2
    ELSE IF pixelFormat = DXT3 THEN 3
    ELSE IF pixelFormat = DXT4 THEN 4
    ELSE IF pixelFormat = DXT5 THEN 5
    ELSE 0

ALIGN_SIZE(value, alignTo) == ((value + alignTo - 1) \div alignTo) * alignTo

\* 2 bits per pixel: 16x8 blocks; 4 bits per pixel: 8x8 blocks.
getPVRCompressionBlockDimensions(depth) ==
    IF depth = 2 THEN [w |-> 16, h |-> 8] ELSE [w |-> 8, h |-> 8]

\* Surface dimensions that take every format for raw samples.
getPVRLegacyFormatSurfaceDimensions_AllRaw(format, layerWidth, layerHeight) ==
    [w |-> layerWidth, h |-> layerHeight]

getPVRLegacyFormatSurfaceDimensions(format, layerWidth, layerHeight) ==
    IF format \in { V_Y1_U_Y0, Y1_V_Y0_U, UYVY, YUY2 }
    THEN [w |-> ALIGN_SIZE(layerWidth, 2), h |-> ALIGN_SIZE(layerHeight, 2)]
    ELSE IF format \in { DXT1, DXT2, DXT3, DXT4, DXT5, ETC }
    THEN [w |-> ALIGN_SIZE(layerWidth, 4), h |-> ALIGN_SIZE(layerHeight, 4)]
    ELSE IF format \in { PVRTC2, PVRTC4, PVRTC2_SEC, PVRTC4_SEC }
    THEN LET blk == getPVRCompressionBlockDimensions(getPVRLegacyFormatDepth(format))
         IN  [w |-> ALIGN_SIZE(layerWidth, blk.w), h |-> ALIGN_SIZE(layerHeight, blk.h)]
    ELSE [w |-> layerWidth, h |-> layerHeight]

isValidPVRLegacyPixelFormat(pixelFormat) ==
    pixelFormat \in
        { ARGB_4444, ARGB_1555, RGB_565, RGB_555, ARGB_8888, ARGB_8332, I8, AI88, MONOCHROME,
          V_Y1_U_Y0, Y1_V_Y0_U, PVRTC2, PVRTC4, ARGB_4444_SEC, ARGB_1555_SEC, ARGB_8888_SEC,
          RGB_565_SEC, RGB_555_SEC, RGB_888_SEC, I8_SEC, AI88_SEC, PVRTC2_SEC, PVRTC4_SEC,
          BGRA_8888, DXT1, DXT2, DXT3, DXT4, DXT5, RGB332, AL_44, LVU_655, XLVU_8888,
          QWVU_8888, ABGR_2101010, ARGB_2101010, AWVU_2101010, GR_1616, VU_1616,
          ABGR_16161616, R_16F, GR_1616F, ABGR_16161616F, R_32F, GR_3232F, ABGR_32323232F,
          ETC, A8, VU_88, L16, L8, AL_88, UYVY, YUY2 }

----------------------------------------------------------------------------
(* Endian-aware 32-bit fields.  A stream is a sequence of bytes.           *)

Bytes(v, littleEndian) ==
    LET b0 == v % 256
        b1 == (v \div 256) % 256
        b2 == (v \div 65536) % 256
        b3 == (v \div 16777216) % 256
    IN  IF littleEndian THEN <<b0, b1, b2, b3>> ELSE <<b3, b2, b1, b0>>

\* A uint32 is held as its 32-bit pattern: the values from 2^31 on appear as
\* the negative number with the same bits, 0xFFFFFFFF as 0 - 1.
uint32_top(byte) == IF byte >= 128 THEN byte - 256 ELSE byte

little_endian(b) == b[1] + 256 * b[2] + 65536 * b[3] + 16777216 * uint32_top(b[4])

big_endian(b) == b[4] + 256 * b[3] + 65536 * b[2] + 16777216 * uint32_top(b[1])

\* v + 1 modulo 2^32.
uint32_inc(v) == IF v = 2147483647 THEN 0 - 2147483647 - 1 ELSE v + 1

\* a < b between unsigned values.
uint32_less(a, b) == IF (a < 0) = (b < 0) THEN a < b ELSE b < 0

Field(data, off, littleEndian) ==
    LET b == SubSeq(data, off + 1, off + 4)
    IN  IF littleEndian THEN little_endian(b) ELSE big_endian(b)

\* pvr_legacy_formatField, bit 0 first.
FormatFieldOf(v) ==
    [ pixelFormat              |-> v % 256,
      mipmapsPresent           |-> (v \div 256) % 2 = 1,
      dataIsTwiddled           |-> (v \div 512) % 2 = 1,
      containsNormalData       |-> (v \div 1024) % 2 = 1,
      hasBorder                |-> (v \div 2048) % 2 = 1,
      isCubeMap                |-> (v \div 4096) % 2 = 1,
      mipmapsHaveDebugColoring |-> (v \div 8192) % 2 = 1,
      isVolumeTexture          |-> (v \div 16384) % 2 = 1,
      hasAlphaChannel_pvrtc    |-> (v \div 32768) % 2 = 1,
      isVerticallyFlipped      |-> (v \div 65536) % 2 = 1 ]

Bit(b) == IF b THEN 1 ELSE 0

FormatFieldValue(f) ==
    f.pixelFormat + 256 * Bit(f.mipmapsPresent) + 512 * Bit(f.dataIsTwiddled)
    + 1024 * Bit(f.containsNormalData) + 2048 * Bit(f.hasBorder) + 4096 * Bit(f.isCubeMap)
    + 8192 * Bit(f.mipmapsHaveDebugColoring) + 16384 * Bit(f.isVolumeTexture)
    + 32768 * Bit(f.hasAlphaChannel_pvrtc) + 65536 * Bit(f.isVerticallyFlipped)

PVR_ID == 559044176          \* 0x21525650

HeaderSizeVer1 == 44

HeaderSizeVer2 == 52

----------------------------------------------------------------------------
(* Pixel buffers.  PixelAllocate hands out the lowest buffer id that is    *)
(* neither allocated nor was touched earlier in the same call, so that the *)
(* events of one call name distinct buffers.                               *)

NumBufs == 3 * (MaxMip + 1) + MaxTexLevels

BufIds == 1 .. NumBufs

NULL == 0

Dead == [live |-> FALSE, data |-> <<>>]

EmptyHeap == [b \in BufIds |-> Dead]

Event(e, lvl, buf, n) == [e |-> e, lvl |-> lvl, buf |-> buf, n |-> n]

Touched(tr) == { tr[i].buf : i \in 1 .. Len(tr) }

LiveBufs(h) == { b \in BufIds : h[b].live }

PixelAllocate(h, tr) ==
    LET free == { b \in BufIds : ~h[b].live /\ b \notin Touched(tr) }
    IN  CHOOSE b \in free : \A c \in free : b <= c

PixelFree(h, b) == IF b = NULL THEN h ELSE [h EXCEPT ![b] = Dead]

\* The texel buffers a layer list references.
LayerBufs(layers) == { layers[i].texels : i \in 1 .. Len(layers) } \ { NULL }

RECURSIVE FreeAll(_, _, _, _)
\* genmip::deleteMipmapLayers: PixelFree of every layer's texels, in order.
FreeAll(h, tr, layers, i) ==
    IF i > Len(layers) THEN [heap |-> h, trace |-> tr]
    ELSE IF layers[i].texels = NULL THEN FreeAll(h, tr, layers, i + 1)
    ELSE FreeAll(PixelFree(h, layers[i].texels),
                 Append(tr, Event(IF h[layers[i].texels].live THEN "free" ELSE "badfree",
                                  i - 1, layers[i].texels, 0)),
                 layers, i + 1)

deleteMipmapLayers(h, tr, layers) == FreeAll(h, tr, layers, 1)

\* Buffers of earlier calls that the container does not reference are out of
\* this model's sight once a new call starts: their owner has retired them.
Carry(h, image) ==
    [b \in BufIds |-> IF b \in LayerBufs(image.mipmaps) THEN h[b] ELSE Dead]

mipmapLayer(width, height, layerWidth, layerHeight, texels, dataSize) ==
    [ width |-> width, height |-> height, layerWidth |-> layerWidth,
      layerHeight |-> layerHeight, texels |-> texels, dataSize |-> dataSize ]

----------------------------------------------------------------------------
(* pvrNativeImage *)

resetFormat(image) ==
    [ image EXCEPT
        !.pixelFormat = ARGB_4444,
        !.dataIsTwiddled = FALSE,
        !.containsNormalData = FALSE,
        !.hasBorder = FALSE,
        !.isCubeMap = FALSE,
        !.mipmapsHaveDebugColoring = FALSE,
        !.isVolumeTexture = FALSE,
        !.hasAlphaChannel_pvrtc = FALSE,
        !.isVerticallyFlipped = FALSE,
        !.bitDepth = 0,
        !.isLittleEndian = TRUE ]

pvrNativeImage ==
    resetFormat(
        [ pixelFormat |-> 0, dataIsTwiddled |-> FALSE, containsNormalData |-> FALSE,
          hasBorder |-> FALSE, isCubeMap |-> FALSE, mipmapsHaveDebugColoring |-> FALSE,
          isVolumeTexture |-> FALSE, hasAlphaChannel_pvrtc |-> FALSE,
          isVerticallyFlipped |-> FALSE, bitDepth |-> 0, isLittleEndian |-> FALSE,
          mipmaps |-> <<>> ])

----------------------------------------------------------------------------
(* mipGenLevelGenerator: base size, then halving with a floor of 1.        *)

mipGen_isValidLevel(w, h) == w # 0 /\ h # 0

mipGen_canIncrement(w, h) == ~(w = 1 /\ h = 1)

mipGen_next(v) == IF v \div 2 = 0 THEN 1 ELSE v \div 2

IsPowerOfTwo(v) == v \in { 1, 2, 4, 8, 16, 32, 64, 128, 256 }

\* nativeTextureSizeRules with powerOfTwo and squared set.
IsMipmapSizeValid_pot_squared(width, height) ==
    IsPowerOfTwo(width) /\ IsPowerOfTwo(height) /\ width = height

----------------------------------------------------------------------------
(* readLegacyVersionHeader *)

NoHeader(pos) ==
    [ ok |-> FALSE, pos |-> pos, width |-> 0, height |-> 0, mipmapCount |-> 0,
      formatField |-> FormatFieldOf(0), surfaceSize |-> 0, bitsPerPixel |-> 0,
      isLittleEndian |-> TRUE ]

\* The fixed fields behind the size field, decoded in the given byte order.
readHeaderFields(data, littleEndian) ==
    [ ok |-> TRUE,
      pos |-> 0,
      height |-> Field(data, 4, littleEndian),
      width |-> Field(data, 8, littleEndian),
      mipmapCount |-> Field(data, 12, littleEndian),
      formatField |-> FormatFieldOf(Field(data, 16, littleEndian)),
      surfaceSize |-> Field(data, 20, littleEndian),
      bitsPerPixel |-> Field(data, 24, littleEndian),
      isLittleEndian |-> littleEndian ]

\* A parser branch that trusts the size field alone: C3 fails of it.
readHeaderStruct_NoMagic(data, header_size, littleEndian) ==
    IF Len(data) < header_size
    THEN NoHeader(Len(data))
    ELSE [ readHeaderFields(data, littleEndian) EXCEPT !.pos = header_size ]

\* One branch of the parser: the header struct of the matched version.
readHeaderStruct(data, header_size, littleEndian) ==
    IF Len(data) < header_size
    THEN NoHeader(Len(data))
    ELSE IF header_size = HeaderSizeVer2 /\ Field(data, 44, littleEndian) # PVR_ID
    THEN NoHeader(header_size)
    ELSE [ readHeaderFields(data, littleEndian) EXCEPT !.pos = header_size ]

le_header_size(b) == little_endian(b)

\* header_data_union declares be_header_size as endian::little_endian <uint32>.
be_header_size(b) == little_endian(b)

readLegacyVersionHeader(data) ==
    IF Len(data) < 4
    THEN NoHeader(Len(data))
    ELSE LET size_le == le_header_size(SubSeq(data, 1, 4))
             size_be == be_header_size(SubSeq(data, 1, 4))
         IN  IF size_le = HeaderSizeVer1 \/ size_le = HeaderSizeVer2
             THEN readHeaderStruct(data, size_le, TRUE)
             ELSE IF size_be = HeaderSizeVer1 \/ size_be = HeaderSizeVer2
             THEN readHeaderStruct(data, size_be, FALSE)
             ELSE NoHeader(4)

----------------------------------------------------------------------------
(* ReadNativeImage *)

NoFault == 0 - 1

\* State of the mipmap read loop.
ReadLoopStart(image, h, header) ==
    [ img |-> image, heap |-> h, pos |-> header.pos, trace |-> <<>>, err |-> "",
      remaining_surfDataSize |-> header.surfaceSize, mip_index |-> 0,
      levelWidth |-> header.width, levelHeight |-> header.height, done |-> FALSE ]

\* A loop tail that allocates without consulting the budget: C8 fails of it.
ReadTexels_NoBudget(s, data, mipLayerWidth, mipLayerHeight, surf, texDataSize, mipTexels, failAlloc, failRead) ==
    IF Len(data) - s.pos < texDataSize
    THEN [s EXCEPT !.err = "stream ended before the data (checkAhead)"]
    ELSE [s EXCEPT !.img.mipmaps =
                        Append(@, mipmapLayer(surf.w, surf.h, mipLayerWidth,
                                              mipLayerHeight, mipTexels, texDataSize)),
                   !.heap[mipTexels] =
                        [live |-> TRUE,
                         data |-> SubSeq(data, s.pos + 1, s.pos + texDataSize)],
                   !.pos = @ + texDataSize,
                   !.trace = Append(@, Event("alloc", s.mip_index, mipTexels, texDataSize)),
                   !.levelWidth = mipLayerWidth,
                   !.levelHeight = mipLayerHeight,
                   !.remaining_surfDataSize = 0,
                   !.mip_index = @ + 1]

\* The tail of one pass of the while loop (lines 3526-3575): budget check,
\* checkAhead, PixelAllocate, the read and the push of the new layer.
\* failAlloc / failRead name the level at which PixelAllocate returns NULL or
\* the stream delivers fewer bytes than asked for.
ReadTexels(s, data, mipLayerWidth, mipLayerHeight, surf, texDataSize, mipTexels, failAlloc, failRead) ==
    LET k == s.mip_index
        budgetOk == Append(s.trace, Event("budget", k, NULL, texDataSize))
        aheadOk == Append(budgetOk, Event("ahead", k, NULL, texDataSize))
        allocated == Append(aheadOk, Event("alloc", k, mipTexels, texDataSize))
        r == [s EXCEPT !.levelWidth = mipLayerWidth, !.levelHeight = mipLayerHeight]
        t == [r EXCEPT !.remaining_surfDataSize = @ - texDataSize]
    IN  IF s.remaining_surfDataSize < texDataSize
        THEN [r EXCEPT !.err = "too little surface data in PVR native image"]
        ELSE IF Len(data) - s.pos < texDataSize
        THEN [t EXCEPT !.err = "stream ended before the data (checkAhead)",
                       !.trace = budgetOk]
        ELSE IF failAlloc = k
        THEN [t EXCEPT !.err = "failed to allocate mipmap surface",
                       !.trace = Append(aheadOk, Event("allocfail", k, NULL, texDataSize))]
        ELSE IF failRead = k
        THEN [t EXCEPT !.err = "impartial mipmap surface read",
                       !.trace = Append(allocated, Event("free", k, mipTexels, 0))]
        ELSE [t EXCEPT !.img.mipmaps =
                            Append(@, mipmapLayer(surf.w, surf.h, mipLayerWidth,
                                                  mipLayerHeight, mipTexels, texDataSize)),
                       !.heap[mipTexels] =
                            [live |-> TRUE,
                             data |-> SubSeq(data, s.pos + 1, s.pos + texDataSize)],
                       !.pos = @ + texDataSize,
                       !.trace = allocated,
                       !.mip_index = @ + 1]

\* The data size of the level's surface (lines 3513-3523).
ReadSurface(s, data, format_bitDepth, mipLayerWidth, mipLayerHeight, surf, failAlloc, failRead) ==
    ReadTexels(s, data, mipLayerWidth, mipLayerHeight, surf,
               getRasterDataSizeByRowSize(
                   getPVRNativeImageRasterDataRowSize(surf.w, format_bitDepth), surf.h),
               PixelAllocate(s.heap, s.trace), failAlloc, failRead)

\* One pass of the while loop (lines 3497-3576) for the level s.mip_index.
ReadLevel(s, data, pixelFormat, format_bitDepth, failAlloc, failRead) ==
    LET mipLayerWidth ==
            IF s.mip_index = 0 THEN s.levelWidth ELSE mipGen_next(s.levelWidth)
        mipLayerHeight ==
            IF s.mip_index = 0 THEN s.levelHeight ELSE mipGen_next(s.levelHeight)
    IN  IF ~(s.mip_index = 0 \/ mipGen_canIncrement(s.levelWidth, s.levelHeight))
        THEN [s EXCEPT !.done = TRUE]
        ELSE ReadSurface(s, data, format_bitDepth, mipLayerWidth, mipLayerHeight,
                         getPVRLegacyFormatSurfaceDimensions(pixelFormat, mipLayerWidth,
                                                             mipLayerHeight),
                         failAlloc, failRead)

RECURSIVE ReadLevels(_, _, _, _, _, _, _)
ReadLevels(s, mipmapCount, data, pixelFormat, format_bitDepth, failAlloc, failRead) ==
    IF s.err # "" \/ s.done \/ ~uint32_less(s.mip_index, mipmapCount)
    THEN s
    ELSE ReadLevels(ReadLevel(s, data, pixelFormat, format_bitDepth, failAlloc, failRead),
                    mipmapCount, data, pixelFormat, format_bitDepth, failAlloc, failRead)

\* The properties stored at lines 3462-3479.
StoreProperties(image, header, pixelFormat, format_bitDepth) ==
    [ image EXCEPT
        !.pixelFormat = pixelFormat,
        !.dataIsTwiddled = header.formatField.dataIsTwiddled,
        !.containsNormalData = header.formatField.containsNormalData,
        !.hasBorder = header.formatField.hasBorder,
        !.isCubeMap = FALSE,
        !.mipmapsHaveDebugColoring = header.formatField.mipmapsHaveDebugColoring,
        !.isVolumeTexture = FALSE,
        !.hasAlphaChannel_pvrtc = header.formatField.hasAlphaChannel_pvrtc,
        !.isVerticallyFlipped = header.formatField.isVerticallyFlipped,
        !.bitDepth = format_bitDepth,
        !.isLittleEndian = header.isLittleEndian ]

Thrown(image, h, pos, tr, warn, msg) ==
    [ img |-> image, heap |-> h, pos |-> pos, trace |-> tr, warnings |-> warn, err |-> msg ]

\* Header checks that let twiddled data of any classification pass: C9 fails
\* of them.
ValidateHeader_AnyTwiddled(header) ==
    IF ~isValidPVRLegacyPixelFormat(header.formatField.pixelFormat)
    THEN "invalid PVR native image (legacy) pixel format"
    ELSE IF header.formatField.isCubeMap
    THEN "cubemap PVR native images not supported yet"
    ELSE IF header.formatField.isVolumeTexture
    THEN "volume texture PVR native images not supported yet"
    ELSE IF header.formatField.isVerticallyFlipped
    THEN "vertically flipped PVR native images not supported yet"
    ELSE IF /\ header.formatField.dataIsTwiddled
            /\ ~IsMipmapSizeValid_pot_squared(header.width, header.height)
    THEN "twiddled but width and height are not POT and squared"
    ELSE ""

\* Header checks that let a vertically flipped image pass: C10 fails of them.
ValidateHeader_AcceptFlipped(header) ==
    IF ~isValidPVRLegacyPixelFormat(header.formatField.pixelFormat)
    THEN "invalid PVR native image (legacy) pixel format"
    ELSE IF header.formatField.isCubeMap
    THEN "cubemap PVR native images not supported yet"
    ELSE IF header.formatField.isVolumeTexture
    THEN "volume texture PVR native images not supported yet"
    ELSE IF /\ header.formatField.dataIsTwiddled
            /\ ~IsMipmapSizeValid_pot_squared(header.width, header.height)
    THEN "twiddled but width and height are not POT and squared"
    ELSE IF /\ header.formatField.dataIsTwiddled
            /\ getPVRLegacyPixelFormatType(header.formatField.pixelFormat) # "COMPRESSED"
    THEN "twiddled PVR native images are not supported"
    ELSE ""

\* The checks between the header parse and the first write to the container
\* (lines 3405-3460); "" when the header passes all of them.
ValidateHeader(header) ==
    LET pixelFormat == header.formatField.pixelFormat
        isTwiddled == header.formatField.dataIsTwiddled
    IN  IF ~isValidPVRLegacyPixelFormat(pixelFormat)
        THEN "invalid PVR native image (legacy) pixel format"
        ELSE IF header.formatField.isCubeMap
        THEN "cubemap PVR native images not supported yet"
        ELSE IF header.formatField.isVolumeTexture
        THEN "volume texture PVR native images not supported yet"
        ELSE IF header.formatField.isVerticallyFlipped
        THEN "vertically flipped PVR native images not supported yet"
        ELSE IF isTwiddled /\ ~IsMipmapSizeValid_pot_squared(header.width, header.height)
        THEN "twiddled but width and height are not POT and squared"
        ELSE IF isTwiddled /\ getPVRLegacyPixelFormatType(pixelFormat) # "COMPRESSED"
        THEN "twiddled PVR native images are not supported"
        ELSE ""

\* FinishRead treating left-over surface bytes as a hard error.
FinishRead_RejectMeta(s, mipmapCount, warnDepth) ==
    IF s.err # ""
    THEN Thrown(s.img, s.heap, s.pos, s.trace, warnDepth, s.err)
    ELSE IF s.remaining_surfDataSize # 0
    THEN Thrown(s.img, s.heap, s.pos, s.trace, warnDepth, "too little surface data in PVR native image")
    ELSE [ img |-> s.img, heap |-> s.heap, pos |-> s.pos, trace |-> s.trace,
           warnings |-> warnDepth, err |-> "" ]

\* After the loop (lines 3578-3592): warnings and the skip of the rest.
FinishRead(s, mipmapCount, warnDepth) ==
    LET warnLevels ==
            IF s.mip_index # mipmapCount
            THEN << "PVR native image specified more mipmap layers than could be read" >>
            ELSE << >>
        warnMeta ==
            IF s.remaining_surfDataSize # 0
            THEN << "PVR native image has surface meta-data" >>
            ELSE << >>
        skipped ==
            IF s.remaining_surfDataSize # 0
            THEN Append(s.trace, Event("skip", s.mip_index, NULL, s.remaining_surfDataSize))
            ELSE s.trace
    IN  IF s.err # ""
        THEN Thrown(s.img, s.heap, s.pos, s.trace, warnDepth, s.err)
        ELSE [ img |-> s.img, heap |-> s.heap, pos |-> s.pos + s.remaining_surfDataSize,
               trace |-> skipped, warnings |-> warnDepth \o warnLevels \o warnMeta,
               err |-> "" ]

\* From the store of the properties on (lines 3462-3592).
ReadMipmaps(stored, h, data, header, format_bitDepth, warnDepth, failAlloc, failRead) ==
    IF ~mipGen_isValidLevel(header.width, header.height)
    THEN Thrown(stored, h, header.pos, <<>>, warnDepth,
                "invalid image dimensions in PVR native image")
    ELSE FinishRead(ReadLevels(ReadLoopStart(stored, h, header),
                               uint32_inc(header.mipmapCount),
                               data, header.formatField.pixelFormat, format_bitDepth,
                               failAlloc, failRead),
                    uint32_inc(header.mipmapCount), warnDepth)

\* From the parsed header on (lines 3377-3592).
ReadHeader(image, h, data, header, format_bitDepth, invalid, failAlloc, failRead) ==
    LET pixelFormat == header.formatField.pixelFormat
        warnDepth ==
            IF header.bitsPerPixel # format_bitDepth
            THEN << "PVR native texture has an invalid bitsPerPixel value" >>
            ELSE << >>
    IN  IF ~header.ok
        THEN Thrown(image, h, header.pos, <<>>, <<>>, "invalid PVR native image")
        ELSE IF ~isValidPVRLegacyPixelFormat(pixelFormat)
        THEN Thrown(image, h, header.pos, <<>>, <<>>, invalid)
        ELSE IF invalid # ""
        THEN Thrown(image, h, header.pos, <<>>, warnDepth, invalid)
        ELSE ReadMipmaps(StoreProperties(image, header, pixelFormat, format_bitDepth),
                         h, data, header, format_bitDepth, warnDepth, failAlloc, failRead)

ReadParsed(image, h, data, header, failAlloc, failRead) ==
    ReadHeader(image, h, data, header,
               getPVRLegacyFormatDepth(header.formatField.pixelFormat),
               ValidateHeader(header), failAlloc, failRead)

ReadNativeImage(image, h, data, failAlloc, failRead) ==
    ReadParsed(image, h, data, readLegacyVersionHeader(data), failAlloc, failRead)

----------------------------------------------------------------------------
(* IsStreamNativeImage *)

IsStreamNativeImage_Ver2Only(data) ==
    LET header == readLegacyVersionHeader(data)
    IN  /\ header.ok
        /\ header.pos = HeaderSizeVer2
        /\ isValidPVRLegacyPixelFormat(header.formatField.pixelFormat)
        /\ mipGen_isValidLevel(header.width, header.height)

IsStreamNativeImage(data) ==
    LET header == readLegacyVersionHeader(data)
    IN  /\ header.ok
        /\ isValidPVRLegacyPixelFormat(header.formatField.pixelFormat)
        /\ mipGen_isValidLevel(header.width, header.height)

----------------------------------------------------------------------------
(* WriteNativeImage *)

RECURSIVE TotalSurfaceSize(_, _)
TotalSurfaceSize(mipmaps, n) ==
    IF n = 0 THEN 0 ELSE TotalSurfaceSize(mipmaps, n - 1) + mipmaps[n].dataSize

RECURSIVE LevelBytes(_, _, _)
\* The texel bytes of levels 1..n in order, dataSize bytes of each buffer.
LevelBytes(mipmaps, h, n) ==
    IF n = 0 THEN <<>>
    ELSE LevelBytes(mipmaps, h, n - 1)
         \o SubSeq(h[mipmaps[n].texels].data, 1, mipmaps[n].dataSize)

WriteFormatField(image, mipmapCount) ==
    [ pixelFormat              |-> image.pixelFormat % 256,
      mipmapsPresent           |-> mipmapCount > 1,
      dataIsTwiddled           |-> image.dataIsTwiddled,
      containsNormalData       |-> image.containsNormalData,
      hasBorder                |-> image.hasBorder,
      isCubeMap                |-> image.isCubeMap,
      mipmapsHaveDebugColoring |-> image.mipmapsHaveDebugColoring,
      isVolumeTexture          |-> image.isVolumeTexture,
      hasAlphaChannel_pvrtc    |-> image.hasAlphaChannel_pvrtc,
      isVerticallyFlipped      |-> image.isVerticallyFlipped ]

\* WriteNativeImage storing the level count itself in the mipmapCount field.
WriteNativeImage_CountAsIs(image, h) ==
    LET mipmapCount == Len(image.mipmaps)
        le == image.isLittleEndian
        baseLayer == image.mipmaps[1]
    IN  Bytes(HeaderSizeVer2, le)
        \o Bytes(baseLayer.layerHeight, le)
        \o Bytes(baseLayer.layerWidth, le)
        \o Bytes(mipmapCount, le)
        \o Bytes(FormatFieldValue(WriteFormatField(image, mipmapCount)), le)
        \o Bytes(TotalSurfaceSize(image.mipmaps, mipmapCount), le)
        \o Bytes(image.bitDepth, le)
        \o Bytes(0, le) \o Bytes(0, le) \o Bytes(0, le) \o Bytes(0, le)
        \o Bytes(PVR_ID, le)
        \o Bytes(1, le)
        \o LevelBytes(image.mipmaps, h, mipmapCount)

\* The bytes WriteNativeImage emits for a container with at least one level.
WriteNativeImage(image, h) ==
    LET mipmapCount == Len(image.mipmaps)
        le == image.isLittleEndian
        baseLayer == image.mipmaps[1]
    IN  Bytes(HeaderSizeVer2, le)
        \o Bytes(baseLayer.layerHeight, le)
        \o Bytes(baseLayer.layerWidth, le)
        \o Bytes(mipmapCount - 1, le)
        \o Bytes(FormatFieldValue(WriteFormatField(image, mipmapCount)), le)
        \o Bytes(TotalSurfaceSize(image.mipmaps, mipmapCount), le)
        \o Bytes(image.bitDepth, le)
        \o Bytes(0, le) \o Bytes(0, le) \o Bytes(0, le) \o Bytes(0, le)
        \o Bytes(PVR_ID, le)
        \o Bytes(1, le)
        \o LevelBytes(image.mipmaps, h, mipmapCount)

----------------------------------------------------------------------------
(* ClearImageData *)

\* A clear that drops the levels and leaves the format fields as they are.
ClearImageData_KeepFormat(image, h, deallocate) ==
    LET freed == IF deallocate
                 THEN deleteMipmapLayers(h, <<>>, image.mipmaps)
                 ELSE [heap |-> h, trace |-> <<>>]
    IN  [ img |-> [image EXCEPT !.mipmaps = <<>>],
          heap |-> freed.heap, trace |-> freed.trace ]

ClearImageData(image, h, deallocate) ==
    LET freed == IF deallocate
                 THEN deleteMipmapLayers(h, <<>>, image.mipmaps)
                 ELSE [heap |-> h, trace |-> <<>>]
    IN  [ img |-> resetFormat([image EXCEPT !.mipmaps = <<>>]),
          heap |-> freed.heap, trace |-> freed.trace ]

----------------------------------------------------------------------------
(* The files the stream handlers are run on. *)

\* Byte i of a file's surface data.
TexelByte(i) == (i * 37 + 11) % 256

RECURSIVE FileSurfaceSize(_, _, _, _)
\* Bytes of the first n levels of a w x h image of the given format.
FileSurfaceSize(format, w, h, n) ==
    IF n = 0 \/ w = 0 \/ h = 0 THEN 0
    ELSE LET surf == getPVRLegacyFormatSurfaceDimensions(format, w, h)
             size == getPVRNativeImageRasterDataRowSize(surf.w, getPVRLegacyFormatDepth(format))
                        * surf.h
         IN  IF w = 1 /\ h = 1 THEN size
             ELSE size + FileSurfaceSize(format, mipGen_next(w), mipGen_next(h), n - 1)

NoFlags == FormatFieldOf(0)

\* A file description: header fields as the author of the file meant them.
\* surfDelta is added to the true surface size in the surfaceSize field, cut
\* (when not NoFault) truncates the file to that many bytes.
FileDesc(sizeField, big, magicOk, format, w, h, mipc, flags, surfDelta, bppOk, cut) ==
    [ sizeField |-> sizeField, big |-> big, magicOk |-> magicOk, format |-> format,
      w |-> w, h |-> h, mipc |-> mipc, flags |-> flags, surfDelta |-> surfDelta,
      bppOk |-> bppOk, cut |-> cut ]

FileBytes(f) ==
    LET le == ~f.big
        exact == FileSurfaceSize(f.format, f.w, f.h, f.mipc + 1)
        declared == IF exact + f.surfDelta < 0 THEN 0 ELSE exact + f.surfDelta
        present == IF declared > exact THEN declared ELSE exact
        depth == getPVRLegacyFormatDepth(f.format)
        flagsValue ==
            FormatFieldValue([ f.flags EXCEPT !.pixelFormat = f.format,
                                             !.mipmapsPresent = f.mipc > 0 ])
        all ==
            Bytes(f.sizeField, le)
            \o Bytes(f.h, le) \o Bytes(f.w, le) \o Bytes(f.mipc, le)
            \o Bytes(flagsValue, le)
            \o Bytes(declared, le)
            \o Bytes(IF f.bppOk THEN depth ELSE depth + 1, le)
            \o Bytes(3, le) \o Bytes(5, le) \o Bytes(7, le) \o Bytes(9, le)
            \o (IF f.sizeField = HeaderSizeVer1 THEN <<>>
                ELSE Bytes(IF f.magicOk THEN PVR_ID ELSE PVR_ID + 1, le) \o Bytes(1, le))
            \o [i \in 1 .. present |-> TexelByte(i)]
    IN  IF f.cut = NoFault \/ f.cut >= Len(all) THEN all ELSE SubSeq(all, 1, f.cut)
----------------------------------------------------------------------------
(* Format links between the framework raster formats and the PVR formats.  *)

Link(pixelFormat, canDirectlyAcquire) ==
    [ pixelFormat |-> pixelFormat, canDirectlyAcquire |-> canDirectlyAcquire ]

getPVRLegacyRawColorFormatLink_AnyOrder(rasterFormat, depth, colorOrder) ==
    IF rasterFormat = "RASTER_565" THEN Link(RGB_565_SEC, depth = 16)
    ELSE IF rasterFormat = "RASTER_LUM" THEN Link(I8_SEC, depth = 8)
    ELSE Link(BGRA_8888, FALSE)

getPVRLegacyRawColorFormatLink(rasterFormat, depth, colorOrder) ==
    IF rasterFormat = "RASTER_1555" THEN Link(ARGB_1555_SEC, FALSE)
    ELSE IF rasterFormat = "RASTER_565"
    THEN Link(RGB_565_SEC, depth = 16 /\ colorOrder = "COLOR_BGRA")
    ELSE IF rasterFormat = "RASTER_4444"
    THEN Link(ARGB_4444_SEC, depth = 16 /\ colorOrder = "COLOR_ABGR")
    ELSE IF rasterFormat = "RASTER_LUM" THEN Link(I8_SEC, depth = 8)
    ELSE IF rasterFormat = "RASTER_8888"
    THEN IF colorOrder = "COLOR_RGBA" THEN Link(ARGB_8888_SEC, depth = 32)
         ELSE IF colorOrder = "COLOR_BGRA" THEN Link(BGRA_8888, depth = 32)
         ELSE Link(ARGB_8888_SEC, FALSE)
    ELSE IF rasterFormat = "RASTER_888"
    THEN Link(RGB_888_SEC, depth = 24 /\ colorOrder = "COLOR_RGBA")
    ELSE IF rasterFormat = "RASTER_555" THEN Link(RGB_555_SEC, FALSE)
    ELSE IF rasterFormat = "RASTER_LUM_ALPHA"
    THEN IF depth = 8 THEN Link(AL_44, TRUE)
         ELSE IF depth = 16 THEN Link(AL_88, TRUE)
         ELSE Link(AL_88, FALSE)
    ELSE Link(BGRA_8888, FALSE)

Mapping(rasterFormat, colorOrder, compressionType, isDirectMapping) ==
    [ rasterFormat |-> rasterFormat, colorOrder |-> colorOrder,
      compressionType |-> compressionType, isDirectMapping |-> isDirectMapping ]

getPVRRasterFormatMapping(format, isLittleEndian) ==
    IF format \in { ARGB_4444, ARGB_4444_SEC }
    THEN Mapping("RASTER_4444", "COLOR_ABGR", "RWCOMPRESS_NONE", isLittleEndian)
    ELSE IF format \in { ARGB_1555, ARGB_1555_SEC }
    THEN Mapping("RASTER_1555", "COLOR_BGRA", "RWCOMPRESS_NONE", FALSE)
    ELSE IF format \in { RGB_555, RGB_555_SEC }
    THEN Mapping("RASTER_555", "COLOR_BGRA", "RWCOMPRESS_NONE", FALSE)
    ELSE IF format \in { RGB_565, RGB_565_SEC }
    THEN Mapping("RASTER_565", "COLOR_BGRA", "RWCOMPRESS_NONE", isLittleEndian)
    ELSE IF format \in { ARGB_8888, ARGB_8888_SEC }
    THEN Mapping("RASTER_8888", "COLOR_RGBA", "RWCOMPRESS_NONE", isLittleEndian)
    ELSE IF format \in { RGB_888, RGB_888_SEC }
    THEN Mapping("RASTER_888", "COLOR_RGBA", "RWCOMPRESS_NONE", isLittleEndian)
    ELSE IF format \in { I8, I8_SEC, L8 }
    THEN Mapping("RASTER_LUM", "COLOR_RGBA", "RWCOMPRESS_NONE", isLittleEndian)
    ELSE IF format \in { AI88, AI88_SEC, AL_88 }
    THEN Mapping("RASTER_LUM_ALPHA", "COLOR_RGBA", "RWCOMPRESS_NONE", isLittleEndian)
    ELSE IF format = AL_44
    THEN Mapping("RASTER_LUM_ALPHA", "COLOR_RGBA", "RWCOMPRESS_NONE", isLittleEndian)
    ELSE IF format = BGRA_8888
    THEN Mapping("RASTER_8888", "COLOR_BGRA", "RWCOMPRESS_NONE", isLittleEndian)
    ELSE IF format = DXT1
    THEN Mapping("RASTER_DEFAULT", "COLOR_RGBA", "RWCOMPRESS_DXT1", isLittleEndian)
    ELSE IF format = DXT2
    THEN Mapping("RASTER_DEFAULT", "COLOR_RGBA", "RWCOMPRESS_DXT2", isLittleEndian)
    ELSE IF format = DXT3
    THEN Mapping("RASTER_DEFAULT", "COLOR_RGBA", "RWCOMPRESS_DXT3", isLittleEndian)
    ELSE IF format = DXT4
    THEN Mapping("RASTER_DEFAULT", "COLOR_RGBA", "RWCOMPRESS_DXT4", isLittleEndian)
    ELSE IF format = DXT5
    THEN Mapping("RASTER_DEFAULT", "COLOR_RGBA", "RWCOMPRESS_DXT5", isLittleEndian)
    ELSE Mapping("RASTER_8888", "COLOR_BGRA", "RWCOMPRESS_NONE", FALSE)

\* Bitmap::getRasterFormatDepth of the raster formats the mapping selects.
getRasterFormatDepth(rasterFormat) ==
    IF rasterFormat \in { "RASTER_8888", "RASTER_DEFAULT" } THEN 32
    ELSE IF rasterFormat = "RASTER_888" THEN 24
    ELSE IF rasterFormat = "RASTER_LUM" THEN 8
    ELSE 16

\* True when some level's rows are laid out differently under the two
\* (depth, alignment) pairs, so that the buffers cannot be taken as they are.
doesPixelDataNeedAddressabilityAdjustment(layers, srcDepth, srcRowAlignment, dstDepth, dstRowAlignment) ==
    \E n \in 1 .. Len(layers) :
        getRasterDataRowSize(layers[n].layerWidth, srcDepth, srcRowAlignment)
            # getRasterDataRowSize(layers[n].layerWidth, dstDepth, dstRowAlignment)

----------------------------------------------------------------------------
(* Level transcoding loops.  Every loop of the import and export paths has *)
(* the same shape: obtain a destination buffer, fill it from the source    *)
(* level, free the source level when it is a temporary, store the new      *)
(* layer; on a throw the layers stored so far are deleted.                 *)

NullLayer == mipmapLayer(0, 0, 0, 0, NULL, 0)

\* Bytes a transcoder writes: some function of the source bytes.
Transcoded(srcData, dstDataSize) ==
    [ i \in 1 .. dstDataSize |->
        IF Len(srcData) = 0 THEN 0 ELSE (srcData[((i - 1) % Len(srcData)) + 1] + 128) % 256 ]

\* Geometry and size of the layer a loop produces from srcLayer.
\*   "raw":   raw samples of dstDepth bits with rows aligned to dstRowAlignment
\*   "swap":  the DXT blocks of the source, byte-swapped
\*   "pvrtc": PVRTC blocks of dstDepth bits per pixel
DstLayer(kind, dstDepth, dstRowAlignment, srcLayer, dstTexels) ==
    IF kind = "swap"
    THEN mipmapLayer(srcLayer.width, srcLayer.height, srcLayer.layerWidth,
                     srcLayer.layerHeight, dstTexels, srcLayer.dataSize)
    ELSE IF kind = "pvrtc"
    THEN mipmapLayer(
            ALIGN_SIZE(srcLayer.layerWidth, getPVRCompressionBlockDimensions(dstDepth).w),
            ALIGN_SIZE(srcLayer.layerHeight, getPVRCompressionBlockDimensions(dstDepth).h),
            srcLayer.layerWidth, srcLayer.layerHeight, dstTexels,
            (ALIGN_SIZE(srcLayer.layerWidth, getPVRCompressionBlockDimensions(dstDepth).w)
             * ALIGN_SIZE(srcLayer.layerHeight, getPVRCompressionBlockDimensions(dstDepth).h)
             * dstDepth) \div 8)
    ELSE mipmapLayer(srcLayer.layerWidth, srcLayer.layerHeight, srcLayer.layerWidth,
                     srcLayer.layerHeight, dstTexels,
                     getRasterDataSizeByRowSize(
                        getRasterDataRowSize(srcLayer.layerWidth, dstDepth, dstRowAlignment),
                        srcLayer.layerHeight))

LoopStart(h, tr, srcLayers) ==
    [ heap |-> h, trace |-> tr, src |-> srcLayers,
      conv |-> [ n \in 1 .. Len(srcLayers) |-> NullLayer ], err |-> "" ]

\* The free of a temporary source level behind a successful conversion.
\* The endian-swap loop frees dstTexels where its siblings free srcTexels.
FreeTemporary(s, n, kind, newLayer, srcIsNew) ==
    LET victim == IF kind = "swap" THEN newLayer.texels ELSE s.src[n].texels
    IN  IF ~srcIsNew \/ victim = NULL
        THEN [s EXCEPT !.conv[n] = newLayer]
        ELSE [s EXCEPT !.heap = PixelFree(@, victim),
                       !.trace = Append(@, Event(IF s.heap[victim].live
                                                 THEN "free" ELSE "badfree",
                                                 n - 1, victim, 0)),
                       !.src[n].texels = IF kind = "swap" THEN @ ELSE NULL,
                       !.conv[n] = newLayer]

\* One pass of a loop for level n (1-based).  external: the destination
\* buffer is allocated inside a collaborator that throws on any failure;
\* otherwise PixelAllocate and the conversion are separate steps.
TranscodeLevel(s, n, kind, external, newLayer, srcIsNew, failAlloc, failConvert) ==
    IF failAlloc = n - 1
    THEN [s EXCEPT !.err = IF external THEN "transcoder failed"
                           ELSE "failed to allocate destination layer",
                   !.trace = Append(@, Event("allocfail", n - 1, NULL, newLayer.dataSize))]
    ELSE IF failConvert = n - 1 /\ ~external
    THEN [s EXCEPT !.err = "conversion failed",
                   !.trace = @ \o << Event("alloc", n - 1, newLayer.texels, newLayer.dataSize),
                                     Event("free", n - 1, newLayer.texels, 0) >>]
    ELSE FreeTemporary(
            [s EXCEPT !.heap[newLayer.texels] =
                           [live |-> TRUE,
                            data |-> Transcoded(s.heap[s.src[n].texels].data,
                                                newLayer.dataSize)],
                      !.trace = Append(@, Event("alloc", n - 1, newLayer.texels,
                                                newLayer.dataSize))],
            n, kind, newLayer, srcIsNew)

RECURSIVE TranscodeLoop(_, _, _, _, _, _, _, _, _)
\* Levels n .. mipmapCount; on a throw the catch deletes the layers stored.
TranscodeLoop(s, n, kind, external, dstDepth, dstRowAlignment, srcIsNew, failAlloc, failConvert) ==
    IF s.err # ""
    THEN [s EXCEPT !.heap = deleteMipmapLayers(s.heap, s.trace, s.conv).heap,
                   !.trace = deleteMipmapLayers(s.heap, s.trace, s.conv).trace]
    ELSE IF n > Len(s.src) THEN s
    ELSE TranscodeLoop(
            TranscodeLevel(s, n, kind, external,
                           DstLayer(kind, dstDepth, dstRowAlignment, s.src[n],
                                    PixelAllocate(s.heap, s.trace)),
                           srcIsNew, failAlloc, failConvert),
            n + 1, kind, external, dstDepth, dstRowAlignment, srcIsNew,
            failAlloc, failConvert)

----------------------------------------------------------------------------
(* ReadFromNativeTexture *)

\* A native texture as the handlers see it.  For an import, mipmaps are the
\* layers the fetch returned and srcLayersIsNewlyAllocated says whether they
\* are copies handed over to the caller; for an export, mipmaps are the
\* layers the texture holds afterwards.
NativeTexture(name, mipmaps) ==
    [ name |-> name, mipmaps |-> mipmaps, rasterFormat |-> "RASTER_DEFAULT", depth |-> 0,
      rowAlignment |-> 0, colorOrder |-> "COLOR_RGBA", paletteType |-> "PALETTE_NONE",
      paletteData |-> NULL, compressionType |-> "RWCOMPRESS_NONE",
      internalFormat |-> "GL_NONE", hasAlpha |-> FALSE, cubeMap |-> FALSE,
      srcLayersIsNewlyAllocated |-> FALSE ]

Feedback(hasDirectlyAcquired) == IF hasDirectlyAcquired THEN "true" ELSE "false"

Outcome(image, h, tr, msg, fb, t) ==
    [ img |-> image, heap |-> h, trace |-> tr, err |-> msg, feedback |-> fb, tex |-> t ]

\* PixelFree of the palette, when there is one.
FreePalette(s, paletteData) ==
    IF paletteData = NULL THEN s
    ELSE [ heap |-> PixelFree(s.heap, paletteData),
           trace |-> Append(s.trace, Event(IF s.heap[paletteData].live
                                           THEN "free" ELSE "badfree",
                                           0, paletteData, 0)) ]

\* A catch that releases nothing: C5 fails of it.
ImportCatch_KeepSource(h, tr, srcLayers, srcLayersIsNewlyAllocated, paletteData) ==
    [ heap |-> h, trace |-> tr ]

\* The catch at lines 2243-2257.
ImportCatch(h, tr, srcLayers, srcLayersIsNewlyAllocated, paletteData) ==
    IF srcLayersIsNewlyAllocated
    THEN FreePalette(deleteMipmapLayers(h, tr, srcLayers), paletteData)
    ELSE [ heap |-> h, trace |-> tr ]

ImportThrown(image, t, cleaned, msg) ==
    Outcome(image, cleaned.heap, cleaned.trace, msg, "unassigned", t)

\* Lines 2223-2270: the container takes the layers, the palette is dropped.
ImportStore(image, t, s, srcLayers, srcLayersIsNewlyAllocated, pvrPixelFormat, pvrDepth, pvr_hasAlphaChannel_pvrtc, texCubeMap) ==
    Outcome([ image EXCEPT
                !.mipmaps = srcLayers,
                !.pixelFormat = pvrPixelFormat,
                !.dataIsTwiddled = FALSE,
                !.containsNormalData = FALSE,
                !.hasBorder = FALSE,
                !.isCubeMap = texCubeMap,
                !.mipmapsHaveDebugColoring = FALSE,
                !.isVolumeTexture = FALSE,
                !.hasAlphaChannel_pvrtc = pvr_hasAlphaChannel_pvrtc,
                !.isVerticallyFlipped = FALSE,
                !.bitDepth = pvrDepth,
                !.isLittleEndian = TRUE ],
            s.heap, s.trace, "", Feedback(~srcLayersIsNewlyAllocated), t)

\* The palette of a framework texture is freed behind the store when the
\* fetch handed out copies (frm_isPaletteNewlyAllocated).
DropPalette(h, tr, t) ==
    IF t.srcLayersIsNewlyAllocated /\ t.name # "PowerVR"
    THEN FreePalette([ heap |-> h, trace |-> tr ], t.paletteData)
    ELSE [ heap |-> h, trace |-> tr ]

\* Behind the transcoding loop (lines 2134-2145).
ImportConverted(image, t, s, pvrPixelFormat, pvrDepth, texCubeMap) ==
    IF s.err # ""
    THEN ImportThrown(image, t,
                      ImportCatch(s.heap, s.trace, s.src, t.srcLayersIsNewlyAllocated,
                                  t.paletteData),
                      s.err)
    ELSE ImportStore(image, t, DropPalette(s.heap, s.trace, t), s.conv, TRUE,
                     pvrPixelFormat, pvrDepth, FALSE, texCubeMap)

\* ImportRaw without the row addressability check.
ImportRaw_AdoptPadded(image, h, t, link, pvrDepth, texCubeMap, failAlloc, failConvert) ==
    IF /\ t.paletteType = "PALETTE_NONE"
       /\ link.canDirectlyAcquire
    THEN ImportStore(image, t, DropPalette(h, <<>>, t), t.mipmaps,
                     t.srcLayersIsNewlyAllocated, link.pixelFormat, pvrDepth, FALSE,
                     texCubeMap)
    ELSE ImportConverted(image, t,
                         TranscodeLoop(LoopStart(h, <<>>, t.mipmaps), 1, "raw", FALSE,
                                       pvrDepth, getPVRNativeImageRowAlignment,
                                       t.srcLayersIsNewlyAllocated, failAlloc, failConvert),
                         link.pixelFormat, pvrDepth, texCubeMap)

\* Uncompressed framework data (lines 2015-2146).
ImportRaw(image, h, t, link, pvrDepth, texCubeMap, failAlloc, failConvert) ==
    IF /\ t.paletteType = "PALETTE_NONE"
       /\ link.canDirectlyAcquire
       /\ ~doesPixelDataNeedAddressabilityAdjustment(
                t.mipmaps, t.depth, t.rowAlignment, pvrDepth, getPVRNativeImageRowAlignment)
    THEN ImportStore(image, t, DropPalette(h, <<>>, t), t.mipmaps,
                     t.srcLayersIsNewlyAllocated, link.pixelFormat, pvrDepth, FALSE,
                     texCubeMap)
    ELSE ImportConverted(image, t,
                         TranscodeLoop(LoopStart(h, <<>>, t.mipmaps), 1, "raw", FALSE,
                                       pvrDepth, getPVRNativeImageRowAlignment,
                                       t.srcLayersIsNewlyAllocated, failAlloc, failConvert),
                         link.pixelFormat, pvrDepth, texCubeMap)

\* Framework data of a Direct3D texture (lines 2012-2181).
ImportFramework(image, h, t, texCubeMap, failAlloc, failConvert) ==
    IF t.compressionType = "RWCOMPRESS_NONE"
    THEN ImportRaw(image, h, t,
                   getPVRLegacyRawColorFormatLink(t.rasterFormat, t.depth, t.colorOrder),
                   getPVRLegacyFormatDepth(
                       getPVRLegacyRawColorFormatLink(t.rasterFormat, t.depth,
                                                      t.colorOrder).pixelFormat),
                   texCubeMap, failAlloc, failConvert)
    ELSE IF t.compressionType \in { "RWCOMPRESS_DXT1", "RWCOMPRESS_DXT2", "RWCOMPRESS_DXT3",
                                    "RWCOMPRESS_DXT4", "RWCOMPRESS_DXT5" }
    THEN ImportStore(image, t, DropPalette(h, <<>>, t), t.mipmaps,
                     t.srcLayersIsNewlyAllocated,
                     CASE t.compressionType = "RWCOMPRESS_DXT1" -> DXT1
                       [] t.compressionType = "RWCOMPRESS_DXT2" -> DXT2
                       [] t.compressionType = "RWCOMPRESS_DXT3" -> DXT3
                       [] t.compressionType = "RWCOMPRESS_DXT4" -> DXT4
                       [] OTHER -> DXT5,
                     IF t.compressionType = "RWCOMPRESS_DXT1" THEN 4 ELSE 8,
                     FALSE, texCubeMap)
    ELSE ImportThrown(image, t,
                      ImportCatch(h, <<>>, t.mipmaps, t.srcLayersIsNewlyAllocated,
                                  t.paletteData),
                      "unsupported RW compression type")

\* Layers of a PowerVR texture, taken as they are (lines 2182-2217).
ImportPVRTC(image, h, t) ==
    IF t.internalFormat \in { "GL_COMPRESSED_RGB_PVRTC_2BPPV1_IMG",
                              "GL_COMPRESSED_RGBA_PVRTC_2BPPV1_IMG" }
    THEN ImportStore(image, t, [ heap |-> h, trace |-> <<>> ], t.mipmaps, FALSE, PVRTC2_SEC,
                     2, t.internalFormat = "GL_COMPRESSED_RGBA_PVRTC_2BPPV1_IMG", FALSE)
    ELSE IF t.internalFormat \in { "GL_COMPRESSED_RGB_PVRTC_4BPPV1_IMG",
                                   "GL_COMPRESSED_RGBA_PVRTC_4BPPV1_IMG" }
    THEN ImportStore(image, t, [ heap |-> h, trace |-> <<>> ], t.mipmaps, FALSE, PVRTC4_SEC,
                     4, t.internalFormat = "GL_COMPRESSED_RGBA_PVRTC_4BPPV1_IMG", FALSE)
    ELSE ImportThrown(image, t, [ heap |-> h, trace |-> <<>> ],
                      "invalid PowerVR native texture compression type")

ReadFromNativeTexture(image, h, t, failAlloc, failConvert) ==
    IF t.name = "Direct3D8"
    THEN ImportFramework(image, h, t, FALSE, failAlloc, failConvert)
    ELSE IF t.name = "Direct3D9"
    THEN ImportFramework(image, h, t, t.cubeMap, failAlloc, failConvert)
    ELSE IF t.name = "PowerVR"
    THEN ImportPVRTC(image, h, t)
    ELSE ImportThrown(image, t, [ heap |-> h, trace |-> <<>> ],
                      "invalid native texture type in PVR native image texel acquisition")

----------------------------------------------------------------------------
(* WriteToNativeTexture *)

\* What the collaborators of an export do, chosen by the environment:
\*   hasPvrEnv    the PowerVR native texture plugin is registered
\*   acquired     the Direct3D texture takes the layers by reference
\*   alphaScan    result of the alpha scan over decoded texels
\*   recommended  GetRecommendedPVRCompressionFormat's pick
\*   garbage      the value an uninitialised bool happens to hold
\*   stage/level/convert  where a failure strikes: stage 1 is the first
\*                transcoding loop, 2 the PVRTC compression loop, 3 the
\*                Direct3D acquisition; convert tells a conversion throw
\*                from an allocation failure
ExportEnv(hasPvrEnv, acquired, alphaScan, recommended, garbage, stage, level, convert) ==
    [ hasPvrEnv |-> hasPvrEnv, acquired |-> acquired, alphaScan |-> alphaScan,
      recommended |-> recommended, garbage |-> garbage, stage |-> stage, level |-> level,
      convert |-> convert ]

FailAllocAt(x, stage) == IF x.stage = stage /\ ~x.convert THEN x.level ELSE NoFault

FailConvertAt(x, stage) == IF x.stage = stage /\ x.convert THEN x.level ELSE NoFault

getDepthByPVRFormat(comprType) ==
    IF comprType \in { "GL_COMPRESSED_RGB_PVRTC_2BPPV1_IMG",
                       "GL_COMPRESSED_RGBA_PVRTC_2BPPV1_IMG" } THEN 2 ELSE 4

IsPVRTC(pixelFormat) == pixelFormat \in { PVRTC2, PVRTC2_SEC, PVRTC4, PVRTC4_SEC }

\* Lines 2333-2358.
pvrtc_comprType(image) ==
    IF image.pixelFormat \in { PVRTC2, PVRTC2_SEC }
    THEN IF image.hasAlphaChannel_pvrtc THEN "GL_COMPRESSED_RGBA_PVRTC_2BPPV1_IMG"
         ELSE "GL_COMPRESSED_RGB_PVRTC_2BPPV1_IMG"
    ELSE IF image.hasAlphaChannel_pvrtc THEN "GL_COMPRESSED_RGBA_PVRTC_4BPPV1_IMG"
         ELSE "GL_COMPRESSED_RGB_PVRTC_4BPPV1_IMG"

\* nativeTextureSizeRules::verifyMipmaps under the PowerVR size rules.
verifyMipmaps(layers) ==
    \A n \in 1 .. Len(layers) :
        IsPowerOfTwo(layers[n].layerWidth) /\ IsPowerOfTwo(layers[n].layerHeight)

\* A catch that releases the layers whoever owns them: C6 fails of it.
ExportThrown_FreeAlways(image, name, h, tr, tmpMipmapLayers, areLayersNewlyAllocated, msg) ==
    Outcome(image, deleteMipmapLayers(h, tr, tmpMipmapLayers).heap,
            deleteMipmapLayers(h, tr, tmpMipmapLayers).trace, msg, "unassigned",
            NativeTexture(name, <<>>))

\* The catch at lines 3013-3022.
ExportThrown(image, name, h, tr, tmpMipmapLayers, areLayersNewlyAllocated, msg) ==
    IF areLayersNewlyAllocated
    THEN Outcome(image, deleteMipmapLayers(h, tr, tmpMipmapLayers).heap,
                 deleteMipmapLayers(h, tr, tmpMipmapLayers).trace, msg, "unassigned",
                 NativeTexture(name, <<>>))
    ELSE Outcome(image, h, tr, msg, "unassigned", NativeTexture(name, <<>>))

RECURSIVE CopyLayers(_, _)
\* A Direct3D texture that does not take the layers stores copies of its own.
CopyLayers(s, n) ==
    IF n > Len(s.src) THEN s
    ELSE CopyLayers(
            [s EXCEPT !.heap[PixelAllocate(s.heap, s.trace)] =
                           [live |-> TRUE, data |-> s.heap[s.src[n].texels].data],
                      !.trace = Append(@, Event("texcopy", n - 1,
                                                PixelAllocate(s.heap, s.trace),
                                                s.src[n].dataSize)),
                      !.conv[n] = [s.src[n] EXCEPT !.texels = PixelAllocate(s.heap, s.trace)]],
            n + 1)

\* An exit that leaves the temporary layers to a texture that copied them.
ExportCopied_KeepTemporary(image, name, s, areLayersNewlyAllocated, hasFormatDirectMapping) ==
    Outcome(image, s.heap, s.trace, "", Feedback(FALSE), NativeTexture(name, s.conv))

\* Lines 3024-3033 behind a Direct3D acquisition that made copies.
ExportCopied(image, name, s, areLayersNewlyAllocated, hasFormatDirectMapping) ==
    IF areLayersNewlyAllocated
    THEN Outcome(image, deleteMipmapLayers(s.heap, s.trace, s.src).heap,
                 deleteMipmapLayers(s.heap, s.trace, s.src).trace, "", Feedback(FALSE),
                 NativeTexture(name, s.conv))
    ELSE Outcome(image, s.heap, s.trace, "", Feedback(FALSE), NativeTexture(name, s.conv))

\* d3d8/d3d9AcquirePixelDataToTexture and the exit (lines 2928-2959, 3024-3033).
ExportAcquire(image, name, h, tr, useColorLayers, areLayersNewlyAllocated, hasFormatDirectMapping, x) ==
    IF x.stage = 3
    THEN ExportThrown(image, name, h, tr, useColorLayers, areLayersNewlyAllocated,
                      "native texture refused the pixel data")
    ELSE IF x.acquired
    THEN Outcome(image, h, tr, "", Feedback(hasFormatDirectMapping),
                 [ NativeTexture(name, useColorLayers) EXCEPT
                     !.hasAlpha = x.alphaScan,
                     !.cubeMap = name = "Direct3D9" /\ image.isCubeMap ])
    ELSE ExportCopied(image, name, CopyLayers(LoopStart(h, tr, useColorLayers), 1),
                      areLayersNewlyAllocated, hasFormatDirectMapping)

\* Behind a transcoding loop of the framework path (lines 2474-2487,
\* 2563-2575, 2660-2672).
ExportTranscoded(image, name, s, x) ==
    IF s.err # ""
    THEN ExportThrown(image, name, s.heap, s.trace, <<>>, FALSE, s.err)
    ELSE ExportAcquire(image, name, s.heap, s.trace, s.conv, TRUE, FALSE, x)

\* Direct3D targets (lines 2398-2686).
ExportFramework(image, name, h, mapping, colorFormatType, x) ==
    IF mapping.isDirectMapping
    THEN ExportAcquire(image, name, h, <<>>, image.mipmaps, FALSE, TRUE, x)
    ELSE IF colorFormatType = "COMPRESSED" /\ IsPVRTC(image.pixelFormat)
    THEN ExportTranscoded(image, name,
            TranscodeLoop(LoopStart(h, <<>>, image.mipmaps), 1, "raw", TRUE,
                          getRasterFormatDepth(mapping.rasterFormat), 4, FALSE,
                          FailAllocAt(x, 1), NoFault), x)
    ELSE IF colorFormatType = "COMPRESSED"
            /\ image.pixelFormat \in { DXT1, DXT2, DXT3, DXT4, DXT5 }
    THEN ExportTranscoded(image, name,
            TranscodeLoop(LoopStart(h, <<>>, image.mipmaps), 1, "swap", FALSE,
                          getRasterFormatDepth(mapping.rasterFormat), 4, FALSE,
                          FailAllocAt(x, 1), FailConvertAt(x, 1)), x)
    ELSE IF colorFormatType = "COMPRESSED"
    THEN ExportThrown(image, name, h, <<>>, <<>>, FALSE,
                      "unsupported PVR native image compression")
    ELSE ExportTranscoded(image, name,
            TranscodeLoop(LoopStart(h, <<>>, image.mipmaps), 1, "raw", FALSE,
                          getRasterFormatDepth(mapping.rasterFormat), 4, FALSE,
                          FailAllocAt(x, 1), FailConvertAt(x, 1)), x)

\* The PowerVR texture takes the layers (lines 2960-3007, 3024-3033).
\* Line 2988 stores srcLayer.layerHeight as the layer width.
ExportStorePVR(image, name, h, tr, useColorLayers, comprType, pvr_hasAlpha, hasFormatDirectMapping) ==
    Outcome(image, h, tr, "", Feedback(hasFormatDirectMapping),
            [ NativeTexture(name,
                [ n \in 1 .. Len(useColorLayers) |->
                    mipmapLayer(useColorLayers[n].width, useColorLayers[n].height,
                                useColorLayers[n].layerHeight, useColorLayers[n].layerHeight,
                                useColorLayers[n].texels, useColorLayers[n].dataSize) ])
              EXCEPT !.internalFormat = comprType, !.hasAlpha = pvr_hasAlpha ])

\* Behind the compression loop (lines 2897-2909).  pvr_hasAlpha is not
\* assigned on this path, the texture gets what the variable happens to hold.
ExportCompressed(image, name, s, stagedLayersAreNew, x) ==
    IF s.err # ""
    THEN ExportThrown(image, name, s.heap, s.trace, s.src, stagedLayersAreNew, s.err)
    ELSE ExportStorePVR(image, name, s.heap, s.trace, s.conv, x.recommended, x.garbage,
                        FALSE)

\* The format of the raw layers that are compressed (lines 2710-2723).
tmpPixelFormat(image) ==
    IF getPVRLegacyPixelFormatType(image.pixelFormat) = "COMPRESSED"
    THEN BGRA_8888 ELSE image.pixelFormat

\* Lines 2806-2820: the scan of the base level, made when the format of the
\* raw layers has an alpha channel.
shouldHaveAlpha(image, x) ==
    doesPVRLegacyFormatHaveAlphaChannel(tmpPixelFormat(image)) /\ x.alphaScan

\* The scan and the call of GetRecommendedPVRCompressionFormat, as events.
AlphaDecision(image, x) ==
    (IF doesPVRLegacyFormatHaveAlphaChannel(tmpPixelFormat(image))
     THEN << Event("alphascan", 0, NULL, Bit(x.alphaScan)) >> ELSE << >>)
    \o << Event("recommend", 0, NULL, Bit(shouldHaveAlpha(image, x))) >>

\* Lines 2801-2910: compress the raw layers to PVRTC.
ExportCompress(image, name, h, tr, useColorLayers, areLayersNewlyAllocated, x) ==
    ExportCompressed(image, name,
        TranscodeLoop(LoopStart(h, tr \o AlphaDecision(image, x), useColorLayers), 1, "pvrtc", TRUE,
                      getDepthByPVRFormat(x.recommended), 1, areLayersNewlyAllocated,
                      FailAllocAt(x, 2), NoFault),
        areLayersNewlyAllocated, x)

\* Behind the DXT decompression loop (lines 2782-2794).
ExportDecompressed(image, name, s, x) ==
    IF s.err # ""
    THEN ExportThrown(image, name, s.heap, s.trace, <<>>, FALSE, s.err)
    ELSE ExportCompress(image, name, s.heap, s.trace, s.conv, TRUE, x)

\* ExportPVRTC without the size rule check.
ExportPVRTC_NoSizeCheck(image, name, h, colorFormatType, x) ==
    IF IsPVRTC(image.pixelFormat)
    THEN ExportStorePVR(image, name, h, <<>>, image.mipmaps, pvrtc_comprType(image),
                        image.hasAlphaChannel_pvrtc, TRUE)
    ELSE IF colorFormatType = "COMPRESSED" /\ getPVRLegacyFormatDXTType(image.pixelFormat) # 0
    THEN ExportDecompressed(image, name,
            TranscodeLoop(LoopStart(h, <<>>, image.mipmaps), 1, "raw", TRUE, 32,
                          getPVRNativeImageRowAlignment, FALSE, FailAllocAt(x, 1), NoFault),
            x)
    ELSE IF colorFormatType = "COMPRESSED"
    THEN ExportThrown(image, name, h, <<>>, <<>>, FALSE,
                      "unknown PVR native image compression type")
    ELSE ExportCompress(image, name, h, <<>>, image.mipmaps, FALSE, x)

\* The PowerVR target (lines 2687-2917).
ExportPVRTC(image, name, h, colorFormatType, x) ==
    IF IsPVRTC(image.pixelFormat)
    THEN ExportStorePVR(image, name, h, <<>>, image.mipmaps, pvrtc_comprType(image),
                        image.hasAlphaChannel_pvrtc, TRUE)
    ELSE IF ~verifyMipmaps(image.mipmaps)
    THEN ExportThrown(image, name, h, <<>>, <<>>, FALSE,
                      "PVR native image must be power-of-two before compressing to PVRTC")
    ELSE IF colorFormatType = "COMPRESSED" /\ getPVRLegacyFormatDXTType(image.pixelFormat) # 0
    THEN ExportDecompressed(image, name,
            TranscodeLoop(LoopStart(h, <<>>, image.mipmaps), 1, "raw", TRUE, 32,
                          getPVRNativeImageRowAlignment, FALSE, FailAllocAt(x, 1), NoFault),
            x)
    ELSE IF colorFormatType = "COMPRESSED"
    THEN ExportThrown(image, name, h, <<>>, <<>>, FALSE,
                      "unknown PVR native image compression type")
    ELSE ExportCompress(image, name, h, <<>>, image.mipmaps, FALSE, x)

\* Lines 2288-2372: the checks ahead of the try block.
ExportChecked(image, name, h, colorFormatType, x) ==
    IF name \notin { "Direct3D8", "Direct3D9", "PowerVR" }
    THEN Outcome(image, h, <<>>, "unsupported native texture type", "unassigned",
                 NativeTexture(name, <<>>))
    ELSE IF colorFormatType = "UNKNOWN"
    THEN Outcome(image, h, <<>>, "unsupported color format type in PVR native image",
                 "unassigned", NativeTexture(name, <<>>))
    ELSE IF (IsPVRTC(image.pixelFormat) \/ name = "PowerVR") /\ ~x.hasPvrEnv
    THEN Outcome(image, h, <<>>, "the PowerVR native texture is missing", "unassigned",
                 NativeTexture(name, <<>>))
    ELSE IF name = "PowerVR"
    THEN ExportPVRTC(image, name, h, colorFormatType, x)
    ELSE ExportFramework(image, name, h,
                         getPVRRasterFormatMapping(image.pixelFormat, image.isLittleEndian),
                         colorFormatType, x)

WriteToNativeTexture(image, h, name, x) ==
    IF Len(image.mipmaps) = 0
    THEN Outcome(image, h, <<>>, "", "unassigned", NativeTexture(name, <<>>))
    ELSE ExportChecked(image, name, h, getPVRLegacyPixelFormatType(image.pixelFormat), x)

----------------------------------------------------------------------------
(* pvrColorDispatcher *)

\* A member of a branch's struct color: the channel it holds ("r", "g", "b",
\* "a", "l", "x" for padding), its width in bits, whether it is a float.
Member(ch, width, isFloat) == [ ch |-> ch, width |-> width, isFloat |-> isFloat ]

Bits(ch, width) == Member(ch, width, FALSE)

Float(ch) == Member(ch, 32, TRUE)

\* struct color of the branches of browsetexelrgba, in declaration order;
\* <<>> for a format without a branch.
browsetexelrgba_color(pixelFormat) ==
    IF pixelFormat \in { ARGB_4444, ARGB_4444_SEC }
    THEN << Bits("a", 4), Bits("b", 4), Bits("g", 4), Bits("r", 4) >>
    ELSE IF pixelFormat \in { ARGB_1555, ARGB_1555_SEC }
    THEN << Bits("a", 1), Bits("b", 5), Bits("g", 5), Bits("r", 5) >>
    ELSE IF pixelFormat \in { RGB_565, RGB_565_SEC }
    THEN << Bits("b", 5), Bits("g", 6), Bits("r", 5) >>
    ELSE IF pixelFormat \in { RGB_555, RGB_555_SEC }
    THEN << Bits("x", 1), Bits("b", 5), Bits("g", 5), Bits("r", 5) >>
    ELSE IF pixelFormat \in { RGB_888, RGB_888_SEC }
    THEN << Bits("b", 8), Bits("g", 8), Bits("r", 8) >>
    ELSE IF pixelFormat \in { ARGB_8888, ARGB_8888_SEC }
    THEN << Bits("r", 8), Bits("g", 8), Bits("b", 8), Bits("a", 8) >>
    ELSE IF pixelFormat = ARGB_8332
    THEN << Bits("a", 8), Bits("r", 3), Bits("g", 3), Bits("b", 2) >>
    ELSE IF pixelFormat = BGRA_8888
    THEN << Bits("b", 8), Bits("g", 8), Bits("r", 8), Bits("a", 8) >>
    ELSE IF pixelFormat = RGB332
    THEN << Bits("r", 3), Bits("g", 3), Bits("b", 2) >>
    ELSE IF pixelFormat = ABGR_2101010
    THEN << Bits("a", 2), Bits("r", 10), Bits("g", 10), Bits("b", 10) >>
    ELSE IF pixelFormat = ARGB_2101010
    THEN << Bits("a", 2), Bits("b", 10), Bits("g", 10), Bits("r", 10) >>
    ELSE IF pixelFormat = GR_1616
    THEN << Bits("g", 16), Bits("r", 16) >>
    ELSE IF pixelFormat = ABGR_16161616
    THEN << Bits("a", 16), Bits("b", 16), Bits("g", 16), Bits("r", 16) >>
    ELSE IF pixelFormat = R_32F
    THEN << Float("r") >>
    ELSE IF pixelFormat = GR_3232F
    THEN << Float("g"), Float("r") >>
    ELSE IF pixelFormat = ABGR_32323232F
    THEN << Float("a"), Float("b"), Float("g"), Float("r") >>
    ELSE IF pixelFormat = A8
    THEN << Bits("a", 8) >>
    ELSE << >>

\* struct color of the branches of puttexelrgba.
puttexelrgba_color(pixelFormat) ==
    IF pixelFormat \in { ARGB_4444, ARGB_4444_SEC }
    THEN << Bits("a", 4), Bits("b", 4), Bits("g", 4), Bits("r", 4) >>
    ELSE IF pixelFormat \in { ARGB_1555, ARGB_1555_SEC }
    THEN << Bits("a", 1), Bits("b", 5), Bits("g", 5), Bits("r", 5) >>
    ELSE IF pixelFormat \in { RGB_565, RGB_565_SEC }
    THEN << Bits("b", 5), Bits("g", 6), Bits("r", 5) >>
    ELSE IF pixelFormat \in { RGB_555, RGB_555_SEC }
    THEN << Bits("x", 1), Bits("b", 5), Bits("g", 5), Bits("r", 5) >>
    ELSE IF pixelFormat \in { RGB_888, RGB_888_SEC }
    THEN << Bits("r", 8), Bits("g", 8), Bits("b", 8) >>
    ELSE IF pixelFormat \in { ARGB_8888, ARGB_8888_SEC }
    THEN << Bits("r", 8), Bits("g", 8), Bits("b", 8), Bits("a", 8) >>
    ELSE IF pixelFormat = ARGB_8332
    THEN << Bits("a", 8), Bits("r", 3), Bits("g", 3), Bits("b", 2) >>
    ELSE IF pixelFormat = BGRA_8888
    THEN << Bits("b", 8), Bits("g", 8), Bits("r", 8), Bits("a", 8) >>
    ELSE IF pixelFormat = RGB332
    THEN << Bits("r", 3), Bits("g", 3), Bits("b", 2) >>
    ELSE IF pixelFormat = ABGR_2101010
    THEN << Bits("a", 2), Bits("b", 10), Bits("g", 10), Bits("r", 10) >>
    ELSE IF pixelFormat = ARGB_2101010
    THEN << Bits("a", 2), Bits("r", 10), Bits("g", 10), Bits("b", 10) >>
    ELSE IF pixelFormat = GR_1616
    THEN << Bits("g", 16), Bits("r", 16) >>
    ELSE IF pixelFormat = ABGR_16161616
    THEN << Bits("a", 16), Bits("b", 16), Bits("g", 16), Bits("r", 16) >>
    ELSE IF pixelFormat = R_32F
    THEN << Float("r") >>
    ELSE IF pixelFormat = GR_3232F
    THEN << Float("g"), Float("r") >>
    ELSE IF pixelFormat = ABGR_32323232F
    THEN << Float("a"), Float("b"), Float("g"), Float("r") >>
    ELSE << >>

\* struct color of the branches of browsetexellum and of puttexellum, which
\* declare the same members.
texellum_color(pixelFormat) ==
    IF pixelFormat \in { I8, I8_SEC, L8 }
    THEN << Bits("l", 8) >>
    ELSE IF pixelFormat \in { AI88, AI88_SEC, AL_88 }
    THEN << Bits("l", 8), Bits("a", 8) >>
    ELSE IF pixelFormat = AL_44
    THEN << Bits("l", 4), Bits("a", 4) >>
    ELSE IF pixelFormat = L16
    THEN << Bits("l", 16) >>
    ELSE << >>

\* The channels a browse branch does not read from the item: the constant
\* it assigns instead.  A channel in neither table keeps what the caller's
\* variable held.
browsetexelrgba_fixed(pixelFormat) ==
    IF pixelFormat \in { RGB_565, RGB_565_SEC, RGB_555, RGB_555_SEC, RGB_888, RGB_888_SEC,
                         RGB332 }
    THEN [ a |-> 255 ]
    ELSE IF pixelFormat = GR_1616 THEN [ b |-> 0, a |-> 255 ]
    ELSE IF pixelFormat = R_32F THEN [ b |-> 0, g |-> 0, a |-> 255 ]
    ELSE IF pixelFormat = GR_3232F THEN [ b |-> 0, a |-> 255 ]
    ELSE IF pixelFormat = A8 THEN [ r |-> 0, g |-> 0, b |-> 0 ]
    ELSE [ x |-> 0 ]

\* The members a browse branch scales into an output.  The ABGR_16161616
\* branch scales blue twice and never red.
browsetexelrgba_read(pixelFormat) ==
    IF pixelFormat = ABGR_16161616 THEN { "a", "b", "g" } ELSE { "r", "g", "b", "a" }

browsetexellum_fixed(pixelFormat) ==
    IF pixelFormat \in { I8, I8_SEC, L8, L16 } THEN [ a |-> 255 ] ELSE [ x |-> 0 ]

\* putscalecolor / destscalecolor: rescale between 0..255 and 0..max,
\* rounding to nearest.
putscalecolor(color, max) == (2 * color * max + 255) \div 510

destscalecolor(color, max) == (2 * color * 255 + max) \div (2 * max)

MemberMax(m) == 2 ^ m.width - 1

\* The value a put branch assigns to a member.  The 1-bit alpha of ARGB_1555
\* is ( alpha == 255 ); a float member holds the sample over 255; padding is
\* never assigned and holds whatever the stack held.
PutValue(m, pixelFormat, color, garbage) ==
    IF m.ch = "x" THEN garbage % 2
    ELSE IF m.isFloat THEN color[m.ch]
    ELSE IF m.ch = "a" /\ m.width = 1 THEN (IF color.a = 255 THEN 1 ELSE 0)
    ELSE putscalecolor(color[m.ch], MemberMax(m))

\* The sample a browse branch makes of a member.
BrowseValue(m, value) ==
    IF m.isFloat THEN value % 256
    ELSE IF m.ch = "a" /\ m.width = 1 THEN (IF value # 0 THEN 255 ELSE 0)
    ELSE destscalecolor(value, MemberMax(m))

\* The low bits of a value, least significant first.  No member holds a
\* value of more than 16 bits: the upper bits of a wider member are zero.
ToBits(value, width) == [ i \in 1..width |-> IF i > 16 THEN 0 ELSE (value \div 2 ^ (i - 1)) % 2 ]

RECURSIVE BitsValue(_, _)
BitsValue(bits, i) == IF i > Len(bits) THEN 0 ELSE bits[i] * 2 ^ (i - 1) + BitsValue(bits, i + 1)

RECURSIVE colorBits(_, _)
colorBits(layout, i) == IF i > Len(layout) THEN 0 ELSE layout[i].width + colorBits(layout, i + 1)

\* sizeof( color )
colorSize(layout) == colorBits(layout, 1) \div 8

\* The members of an item, first declared member in the lowest bits.
RECURSIVE PackItem(_, _, _, _, _)
PackItem(layout, i, pixelFormat, color, garbage) == IF i > Len(layout) THEN << >> ELSE ToBits(PutValue(layout[i], pixelFormat, color, garbage), layout[i].width) \o PackItem(layout, i + 1, pixelFormat, color, garbage)

ItemBytes(bits) == [ k \in 1..(Len(bits) \div 8) |-> BitsValue(SubSeq(bits, 8 * k - 7, 8 * k), 1) ]

RECURSIVE BytesBits(_, _)
BytesBits(bytes, k) == IF k > Len(bytes) THEN << >> ELSE ToBits(bytes[k], 8) \o BytesBits(bytes, k + 1)

ReverseBytes(bytes) == [ k \in 1..Len(bytes) |-> bytes[Len(bytes) + 1 - k] ]

\* endian::little_endian <color> / endian::big_endian <color> on a
\* little-endian host: the item's bytes as they lie in the texel buffer.
endianness(bytes, isLittleEndian) == IF isLittleEndian THEN bytes ELSE ReverseBytes(bytes)

\* *( (endianness <color>*)dstTexels + colorIndex ) = item
StoreItem(texels, colorIndex, bytes) == [ k \in 1..Len(texels) |-> IF k > colorIndex * Len(bytes) /\ k <= (colorIndex + 1) * Len(bytes) THEN bytes[k - colorIndex * Len(bytes)] ELSE texels[k] ]

\* color item = *( (const endianness <color>*)srcTexels + colorIndex )
LoadItem(texels, colorIndex, size) == SubSeq(texels, colorIndex * size + 1, (colorIndex + 1) * size)

\* The value of member i of an item given as bits.
MemberValue(layout, i, bits) == BitsValue(SubSeq(bits, colorBits(SubSeq(layout, 1, i - 1), 1) + 1, colorBits(SubSeq(layout, 1, i - 1), 1) + (IF layout[i].width > 16 THEN 16 ELSE layout[i].width)), 1)

\* One output of a browse branch: the constant the branch assigns, else the
\* scaled member, else what the caller's variable held.
BrowseOut(ch, layout, bits, fixed, read, prior) ==
    IF ch \in DOMAIN fixed THEN fixed[ch]
    ELSE IF ch \in read /\ \E i \in 1..Len(layout) : layout[i].ch = ch
    THEN LET i == CHOOSE j \in 1..Len(layout) : layout[j].ch = ch
         IN  BrowseValue(layout[i], MemberValue(layout, i, bits))
    ELSE prior[ch]

TexelResult(ok, texels, out, thrown) == [ ok |-> ok, texels |-> texels, out |-> out, thrown |-> thrown ]

puttexelrgba(texels, colorIndex, pixelFormat, isLittleEndian, color, garbage) ==
    IF puttexelrgba_color(pixelFormat) = << >> THEN TexelResult(FALSE, texels, color, FALSE)
    ELSE TexelResult(TRUE, StoreItem(texels, colorIndex, endianness(ItemBytes(PackItem(puttexelrgba_color(pixelFormat), 1, pixelFormat, color, garbage)), isLittleEndian)), color, FALSE)

puttexellum(texels, colorIndex, pixelFormat, isLittleEndian, color) ==
    IF texellum_color(pixelFormat) = << >> THEN TexelResult(FALSE, texels, color, FALSE)
    ELSE TexelResult(TRUE, StoreItem(texels, colorIndex, endianness(ItemBytes(PackItem(texellum_color(pixelFormat), 1, pixelFormat, color, 0)), isLittleEndian)), color, FALSE)

BrowseBits(texels, colorIndex, layout, isLittleEndian) == BytesBits(endianness(LoadItem(texels, colorIndex, colorSize(layout)), isLittleEndian), 1)

browsetexelrgba(texels, colorIndex, pixelFormat, isLittleEndian, prior) ==
    IF browsetexelrgba_color(pixelFormat) = << >> THEN TexelResult(FALSE, texels, prior, FALSE)
    ELSE TexelResult(TRUE, texels,
                [ ch \in { "r", "g", "b", "a" } |->
                    BrowseOut(ch, browsetexelrgba_color(pixelFormat),
                              BrowseBits(texels, colorIndex, browsetexelrgba_color(pixelFormat), isLittleEndian),
                              browsetexelrgba_fixed(pixelFormat), browsetexelrgba_read(pixelFormat), prior) ],
                FALSE)

browsetexellum(texels, colorIndex, pixelFormat, isLittleEndian, prior) ==
    IF texellum_color(pixelFormat) = << >> THEN TexelResult(FALSE, texels, prior, FALSE)
    ELSE TexelResult(TRUE, texels,
                [ ch \in { "l", "a" } |->
                    BrowseOut(ch, texellum_color(pixelFormat),
                              BrowseBits(texels, colorIndex, texellum_color(pixelFormat), isLittleEndian),
                              browsetexellum_fixed(pixelFormat), { "l", "a" }, prior) ],
                FALSE)

rgb2lum(red, green, blue) == (red + green + blue) \div 3

RwException(texels, out) == TexelResult(FALSE, texels, out, TRUE)

RGBAColor(r, g, b, a) == [ r |-> r, g |-> g, b |-> b, a |-> a ]

LumColor(l, a) == [ l |-> l, a |-> a ]

\* pvrColorDispatcher::setRGBA
setRGBA(d, texels, colorIndex, color, garbage) ==
    IF d.colorModel = "RGBA"
    THEN puttexelrgba(texels, colorIndex, d.pixelFormat, d.isLittleEndian, color, garbage)
    ELSE IF d.colorModel = "LUMINANCE"
    THEN TexelResult(FALSE, texels, color, FALSE)
    ELSE RwException(texels, color)

\* pvrColorDispatcher::setLuminance
setLuminance(d, texels, colorIndex, color, garbage) ==
    IF d.colorModel = "RGBA"
    THEN setRGBA(d, texels, colorIndex, RGBAColor(color.l, color.l, color.l, color.a), garbage)
    ELSE IF d.colorModel = "LUMINANCE"
    THEN puttexellum(texels, colorIndex, d.pixelFormat, d.isLittleEndian, color)
    ELSE RwException(texels, color)

\* pvrColorDispatcher::getLuminance on a LUMINANCE dispatcher
getLuminance_lum(d, texels, colorIndex, prior) == browsetexellum(texels, colorIndex, d.pixelFormat, d.isLittleEndian, prior)

\* pvrColorDispatcher::getRGBA
getRGBA(d, texels, colorIndex, prior) ==
    IF d.colorModel = "RGBA"
    THEN browsetexelrgba(texels, colorIndex, d.pixelFormat, d.isLittleEndian, prior)
    ELSE IF d.colorModel = "LUMINANCE"
    THEN LET got == getLuminance_lum(d, texels, colorIndex, LumColor(prior.r, prior.a))
         IN  IF got.ok
             THEN TexelResult(TRUE, texels, RGBAColor(got.out.l, got.out.l, got.out.l, got.out.a), FALSE)
             ELSE TexelResult(FALSE, texels, RGBAColor(prior.r, prior.g, prior.b, got.out.a), FALSE)
    ELSE RwException(texels, prior)

\* pvrColorDispatcher::getLuminance
getLuminance(d, texels, colorIndex, prior) ==
    IF d.colorModel = "RGBA"
    THEN LET got == getRGBA(d, texels, colorIndex, RGBAColor(prior.l, prior.l, prior.l, prior.a))
         IN  IF got.ok
             THEN TexelResult(TRUE, texels, LumColor(rgb2lum(got.out.r, got.out.g, got.out.b), got.out.a), FALSE)
             ELSE TexelResult(FALSE, texels, LumColor(prior.l, got.out.a), FALSE)
    ELSE IF d.colorModel = "LUMINANCE"
    THEN getLuminance_lum(d, texels, colorIndex, prior)
    ELSE RwException(texels, prior)

\* pvrColorDispatcher::setColor: the result of the put is dropped.
setColor(d, texels, colorIndex, color, garbage) ==
    IF "r" \in DOMAIN color
    THEN setRGBA(d, texels, colorIndex, color, garbage)
    ELSE setLuminance(d, texels, colorIndex, color, garbage)

\* pvrColorDispatcher::getColor: a failed fetch yields the zero colour.
getColor(d, texels, colorIndex, prior) ==
    IF d.colorModel = "RGBA"
    THEN LET got == getRGBA(d, texels, colorIndex, RGBAColor(prior.l, prior.l, prior.l, prior.a))
         IN  IF got.ok THEN got ELSE TexelResult(FALSE, texels, RGBAColor(0, 0, 0, 0), FALSE)
    ELSE IF d.colorModel = "LUMINANCE"
    THEN LET got == getLuminance(d, texels, colorIndex, prior)
         IN  IF got.ok THEN got ELSE TexelResult(FALSE, texels, LumColor(0, 0), FALSE)
    ELSE RwException(texels, prior)

\* No dispatcher has been made.
NoDispatcher == [ call |-> "none" ]

----------------------------------------------------------------------------
(* rwinterface.cpp: reference counting of RwObject, engine creation *)

\* refCountPlugin::Initialize
refCountPlugin_Initialize == [ refCount |-> 1 ]

\* refCountPlugin::AddRef
AddRef(plugin) == [ plugin EXCEPT !.refCount = @ + 1 ]

\* refCountPlugin::RemoveRef: the plugin and whether the count reached zero.
RemoveRef(plugin) == [ plugin |-> [ plugin EXCEPT !.refCount = @ - 1 ], zero |-> plugin.refCount - 1 = 0 ]

\* An RwObject: its refCountPlugin, whether it is constructed, how often the
\* type system destroyed it, the count refCountPlugin::Shutdown saw, and the
\* last call made on it.
RwObject(plugin, live, destroyed, atShutdown) == [ plugin |-> plugin, live |-> live, destroyed |-> destroyed, atShutdown |-> atShutdown, call |-> "none" ]

NoObject == RwObject([ refCount |-> 0 ], FALSE, 0, NULL)

\* Interface::ConstructRwObject: the type system constructs the object and
\* initializes its plugins.
ConstructRwObject == RwObject(refCountPlugin_Initialize, TRUE, 0, NULL)

\* RwTypeSystem::Destroy: the plugins are shut down, the object is gone.
Destroy(obj) == RwObject(obj.plugin, FALSE, obj.destroyed + 1, obj.plugin.refCount)

\* AcquireObject
AcquireObject(obj) == [ obj EXCEPT !.plugin = AddRef(@) ]

\* Interface::DeleteRwObject that destroys whatever the count is.
DeleteRwObject_Always(obj) == Destroy([ obj EXCEPT !.plugin = RemoveRef(obj.plugin).plugin ])

\* Interface::DeleteRwObject
DeleteRwObject(obj) ==
    IF RemoveRef(obj.plugin).zero
    THEN Destroy([ obj EXCEPT !.plugin = RemoveRef(obj.plugin).plugin ])
    ELSE [ obj EXCEPT !.plugin = RemoveRef(obj.plugin).plugin ]

\* ReleaseObject
ReleaseObject(obj) == DeleteRwObject(obj)

\* GetRefCount
GetRefCount(obj) == obj.plugin.refCount

\* The library: the static hasInitialized, how often the registration block
\* ran, what VerifyLibraryIntegrity returns in this build, the constructed
\* engines with their versions, and the last call.
Library(integrity) == [ integrity |-> integrity, hasInitialized |-> FALSE, registrations |-> 0, engines |-> {}, call |-> "none", theVersion |-> "", engineOut |-> NULL, asserted |-> TRUE ]

VerifyLibraryIntegrity(l) == l.integrity

\* An engine of the factory and the version set on it.
Engine(id, version) == [ id |-> id, version |-> version ]

\* A registration block that does not consult hasInitialized.
RegisterOnce_EveryCall(l) ==
    IF VerifyLibraryIntegrity(l)
    THEN [ l EXCEPT !.registrations = @ + 1, !.hasInitialized = TRUE ]
    ELSE l

\* The registration block of CreateEngine (lines 603-623).
RegisterOnce(l) ==
    IF ~l.hasInitialized /\ VerifyLibraryIntegrity(l)
    THEN [ l EXCEPT !.registrations = @ + 1, !.hasInitialized = TRUE ]
    ELSE l

\* CreateEngine: engineOut is the engine the factory constructed, NULL when
\* it constructed none.
CreateEngine(l, theVersion, engineOut) ==
    IF RegisterOnce(l).hasInitialized /\ engineOut # NULL
    THEN [ RegisterOnce(l) EXCEPT !.engines = @ \cup { Engine(engineOut, theVersion) }, !.call = "CreateEngine", !.theVersion = theVersion, !.engineOut = engineOut ]
    ELSE [ RegisterOnce(l) EXCEPT !.call = "CreateEngine", !.theVersion = theVersion, !.engineOut = NULL ]

\* DeleteEngine
DeleteEngine(l, theEngine) == [ l EXCEPT !.engines = { e \in @ : e.id # theEngine }, !.call = "DeleteEngine", !.theVersion = "", !.engineOut = theEngine, !.asserted = l.hasInitialized ]

----------------------------------------------------------------------------
(* Format computations on their own: the link and the mapping that the    *)
(* export and the import look up, and the size of a DXT level.            *)

NoCalc == [ call |-> "none" ]

\* The link WriteToNativeTexture's counterpart looks up for framework data,
\* the depth it takes for the linked format, and the mapping the other
\* direction looks up for that format in a little-endian container.
FormatLink(rasterFormat, depth, colorOrder) ==
    LET link == getPVRLegacyRawColorFormatLink(rasterFormat, depth, colorOrder)
    IN  [ call |-> "link", rasterFormat |-> rasterFormat, depth |-> depth, colorOrder |-> colorOrder,
          pixelFormat |-> link.pixelFormat, canDirectlyAcquire |-> link.canDirectlyAcquire,
          pvrDepth |-> getPVRLegacyFormatDepth(link.pixelFormat),
          mapping |-> getPVRRasterFormatMapping(link.pixelFormat, TRUE) ]

\* sizeof of the block struct CopyTransformDXTBlock indexes with.
dxtBlockSize(dxtTypeFmt) == IF dxtTypeFmt = DXT1 THEN 8 ELSE 16

\* The size ReadNativeImage derives for a level, and the block count the
\* endian swap of the export runs over for that level.
LevelBlocks(pixelFormat, layerWidth, layerHeight) ==
    LET surf == getPVRLegacyFormatSurfaceDimensions(pixelFormat, layerWidth, layerHeight)
        texRowSize == getPVRNativeImageRasterDataRowSize(surf.w, getPVRLegacyFormatDepth(pixelFormat))
    IN  [ call |-> "level", pixelFormat |-> pixelFormat, layerWidth |-> layerWidth,
          layerHeight |-> layerHeight, width |-> surf.w, height |-> surf.h,
          dataSize |-> getRasterDataSizeByRowSize(texRowSize, surf.h),
          dxtBlocksWidth |-> surf.w \div 4, dxtBlocksHeight |-> surf.h \div 4,
          dxtBlocksCount |-> uint32_mul(surf.w \div 4, surf.h \div 4) ]

----------------------------------------------------------------------------
(* Warning routing of an engine interface.                                 *)

\* The WarningHandler and WarningManagerInterface objects a caller has.
WarningHandlers == { 1, 2 }

WarningManagers == { 3, 4 }

Sinks == WarningHandlers \cup WarningManagers

\* The interface as its constructor leaves it, with an empty handler stack
\* and nothing delivered.
Interface ==
    [ call |-> "none", warningManager |-> NULL, warningLevel |-> 3, warningHandlerStack |-> <<>>,
      received |-> [ s \in Sinks |-> <<>> ] ]

SetWarningManager(this, warningMan) ==
    [ this EXCEPT !.call = "SetWarningManager", !.warningManager = warningMan ]

SetWarningLevel(this, level) ==
    [ this EXCEPT !.call = "SetWarningLevel", !.warningLevel = level ]

OnWarning(this, sink, message) ==
    [ this EXCEPT !.received[sink] = Append(@, message) ]

PushWarning_Oldest(this, message) ==
    LET called == [ this EXCEPT !.call = "PushWarning" ]
    IN  IF this.warningLevel > 0
        THEN IF this.warningHandlerStack # <<>>
             THEN OnWarning(called, this.warningHandlerStack[1], message)
             ELSE IF this.warningManager # NULL
             THEN OnWarning(called, this.warningManager, message)
             ELSE called
        ELSE called

PushWarning(this, message) ==
    LET called == [ this EXCEPT !.call = "PushWarning" ]
    IN  IF this.warningLevel > 0
        THEN IF this.warningHandlerStack # <<>>
             THEN OnWarning(called, this.warningHandlerStack[Len(this.warningHandlerStack)], message)
             ELSE IF this.warningManager # NULL
             THEN OnWarning(called, this.warningManager, message)
             ELSE called
        ELSE called

GlobalPushWarningHandler(this, theHandler) ==
    [ this EXCEPT !.call = "GlobalPushWarningHandler",
                  !.warningHandlerStack = Append(@, theHandler) ]

GlobalPopWarningHandler(this) ==
    [ this EXCEPT !.call = "GlobalPopWarningHandler",
                  !.warningHandlerStack = SubSeq(@, 1, Len(@) - 1) ]


Flags(tw, cube, vol, flip) ==
    [ NoFlags EXCEPT !.dataIsTwiddled = tw, !.isCubeMap = cube, !.isVolumeTexture = vol,
                     !.isVerticallyFlipped = flip ]

MiscFlags(tw, normal, border, debug, alpha) ==
    [ NoFlags EXCEPT !.dataIsTwiddled = tw, !.containsNormalData = normal,
                     !.hasBorder = border, !.mipmapsHaveDebugColoring = debug,
                     !.hasAlphaChannel_pvrtc = alpha ]

\* Ids put into file headers: every classification, RGB_888 and a gap value.
FileFormats ==
    { ARGB_8888, RGB_565_SEC, I8, DXT1, DXT5, PVRTC4, PVRTC2_SEC, YUY2, RGB_888, VU_88,
      ARGB_8332 + 8 }

FileDims == { <<1, 1>>, <<2, 2>>, <<4, 4>>, <<4, 2>>, <<3, 3>>, <<0, 4>> }

GeometryFiles ==
    { FileDesc(HeaderSizeVer2, FALSE, TRUE, pf, d[1], d[2], m, NoFlags, 0, TRUE, NoFault) :
        pf \in FileFormats, d \in FileDims, m \in 0 .. MaxMip }

HeaderFiles ==
    { FileDesc(sz, big, mg, pf, 2, 2, m, NoFlags, 0, TRUE, cut) :
        sz \in { HeaderSizeVer1, HeaderSizeVer2, HeaderSizeVer1 - 4 },
        big \in BOOLEAN, mg \in BOOLEAN, pf \in { ARGB_8888, DXT1 }, m \in { 0, 1 },
        cut \in { NoFault, 2, 30, 48 } }

FlagFiles ==
    { FileDesc(HeaderSizeVer2, FALSE, TRUE, pf, d[1], d[2], 0, Flags(tw, cube, vol, flip),
               0, TRUE, NoFault) :
        tw \in BOOLEAN, cube \in BOOLEAN, vol \in BOOLEAN, flip \in BOOLEAN,
        pf \in { ARGB_8888, I8, DXT1, VU_88 }, d \in { <<4, 4>>, <<4, 2>>, <<3, 3>> } }

MiscFlagFiles ==
    { FileDesc(sz, FALSE, TRUE, PVRTC4, 8, 8, 0, MiscFlags(tw, n, b, dbg, a),
               0, TRUE, NoFault) :
        sz \in { HeaderSizeVer1, HeaderSizeVer2 }, tw \in BOOLEAN, n \in BOOLEAN,
        b \in BOOLEAN, dbg \in BOOLEAN, a \in BOOLEAN }

SizeFiles ==
    { FileDesc(HeaderSizeVer2, FALSE, TRUE, pf, d, d, m, NoFlags, delta, bpp, cut) :
        pf \in { ARGB_8888, DXT1 }, d \in { 2, 4 }, m \in 0 .. MaxMip,
        delta \in { 0 - 1000, 0 - 1, 0, 3 }, bpp \in BOOLEAN, cut \in { NoFault, 56, 120 } }

\* The largest value of the mipmap-count field, 0xFFFFFFFF.
UINT32_MAX == 0 - 1

\* Files whose mipmap-count field holds 0xFFFFFFFF, with and without surface
\* bytes behind the header.
CountFiles ==
    { FileDesc(sz, FALSE, TRUE, pf, d, d, UINT32_MAX, NoFlags, delta, TRUE, NoFault) :
        sz \in { HeaderSizeVer1, HeaderSizeVer2 }, pf \in { ARGB_8888, DXT1 }, d \in { 2, 4 },
        delta \in { 0, 16 } }

Files ==
    GeometryFiles \cup HeaderFiles \cup FlagFiles \cup MiscFlagFiles \cup SizeFiles
    \cup CountFiles

\* Files on which allocation and read failures are injected.
FaultFiles ==
    { f \in GeometryFiles : f.format \in { ARGB_8888, DXT1 } /\ f.w = 4 /\ f.h = 4 }

\* Files read into a container that still carries the fields of a failed load.
ReuseFiles ==
    { f \in HeaderFiles : f.format = DXT1 /\ f.mipc = 0 /\ f.cut \in { NoFault, 30 } }
    \cup { f \in FlagFiles : f.format = DXT1 /\ f.w = 4 /\ f.h = 4 }

FaultPoints == { NoFault } \cup 0 .. MaxMip

----------------------------------------------------------------------------
(* The native textures the import is run on. *)

RECURSIVE LevelDim(_, _)
\* The n-th halving of a base dimension.
LevelDim(v, n) == IF n = 0 THEN v ELSE LevelDim(mipGen_next(v), n - 1)

TexDesc(name, rasterFormat, depth, colorOrder, rowAlignment, paletteType, compressionType, internalFormat, cubeMap, newly, w, h, levels) ==
    [ name |-> name, rasterFormat |-> rasterFormat, depth |-> depth,
      colorOrder |-> colorOrder, rowAlignment |-> rowAlignment,
      paletteType |-> paletteType, compressionType |-> compressionType,
      internalFormat |-> internalFormat, cubeMap |-> cubeMap, newly |-> newly,
      w |-> w, h |-> h, levels |-> levels ]

\* Bits per pixel of the texture's stored texels.
TexDepth(d) ==
    IF d.name = "PowerVR"
    THEN IF d.internalFormat \in { "GL_COMPRESSED_RGB_PVRTC_2BPPV1_IMG",
                                   "GL_COMPRESSED_RGBA_PVRTC_2BPPV1_IMG" } THEN 2 ELSE 4
    ELSE IF d.compressionType = "RWCOMPRESS_NONE" THEN d.depth
    ELSE IF d.compressionType = "RWCOMPRESS_DXT1" THEN 4 ELSE 8

\* Level n of the texture: block formats store whole blocks.
FetchedLayer(d, lw, lh, texels) ==
    LET blk == IF d.name = "PowerVR" THEN getPVRCompressionBlockDimensions(TexDepth(d))
               ELSE IF d.compressionType = "RWCOMPRESS_NONE" THEN [w |-> 1, h |-> 1]
               ELSE [w |-> 4, h |-> 4]
        sw == ALIGN_SIZE(lw, blk.w)
        sh == ALIGN_SIZE(lh, blk.h)
        rowAlignment == IF d.name = "PowerVR" \/ d.compressionType # "RWCOMPRESS_NONE"
                        THEN 1 ELSE d.rowAlignment
    IN  mipmapLayer(sw, sh, lw, lh, texels,
                    getRasterDataRowSize(sw, TexDepth(d), rowAlignment) * sh)

\* What the fetch of the texture returns: level n in buffer n, the palette
\* (when there is one) in the buffer behind the levels.
Fetch(d) ==
    [ NativeTexture(d.name,
                    [ n \in 1 .. d.levels |->
                        FetchedLayer(d, LevelDim(d.w, n - 1), LevelDim(d.h, n - 1), n) ])
      EXCEPT !.rasterFormat = d.rasterFormat, !.depth = d.depth,
             !.rowAlignment = d.rowAlignment, !.colorOrder = d.colorOrder,
             !.paletteType = d.paletteType,
             !.paletteData = IF d.paletteType = "PALETTE_NONE" THEN NULL ELSE d.levels + 1,
             !.compressionType = d.compressionType, !.internalFormat = d.internalFormat,
             !.cubeMap = d.cubeMap, !.srcLayersIsNewlyAllocated = d.newly ]

\* The heap holding the buffers of a fetched texture.
GiveBuffers(t) ==
    [ b \in BufIds |->
        IF b \in 1 .. Len(t.mipmaps)
        THEN [ live |-> TRUE,
               data |-> [ i \in 1 .. t.mipmaps[b].dataSize |-> TexelByte(i + b) ] ]
        ELSE IF b = t.paletteData
        THEN [ live |-> TRUE, data |-> [ i \in 1 .. 4 |-> TexelByte(i) ] ]
        ELSE Dead ]

RawFormats ==
    { <<"RASTER_8888", 32, "COLOR_BGRA">>, <<"RASTER_8888", 32, "COLOR_ABGR">>,
      <<"RASTER_565", 16, "COLOR_BGRA">>, <<"RASTER_1555", 16, "COLOR_BGRA">>,
      <<"RASTER_LUM", 8, "COLOR_RGBA">>, <<"RASTER_888", 24, "COLOR_RGBA">>,
      <<"RASTER_LUM_ALPHA", 8, "COLOR_RGBA">>, <<"RASTER_DEFAULT", 32, "COLOR_RGBA">> }

Direct3D == { "Direct3D8", "Direct3D9" }

RawTex ==
    { TexDesc(name, f[1], f[2], f[3], 1, "PALETTE_NONE", "RWCOMPRESS_NONE", "GL_NONE",
              FALSE, newly, 2, 2, levels) :
        name \in Direct3D, f \in RawFormats, newly \in BOOLEAN, levels \in 1 .. MaxTexLevels }

\* Rows padded to 4 bytes: the 1x1 level of a 16-bit format has a padded row.
AlignTex ==
    { TexDesc("Direct3D9", f[1], f[2], f[3], 4, "PALETTE_NONE", "RWCOMPRESS_NONE", "GL_NONE",
              FALSE, newly, 2, 2, levels) :
        f \in { <<"RASTER_8888", 32, "COLOR_BGRA">>, <<"RASTER_565", 16, "COLOR_BGRA">> },
        newly \in BOOLEAN, levels \in 1 .. MaxTexLevels }

PalTex ==
    { TexDesc(name, "RASTER_8888", 8, "COLOR_BGRA", 1, "PALETTE_8BIT", "RWCOMPRESS_NONE",
              "GL_NONE", FALSE, newly, 2, 2, levels) :
        name \in Direct3D, newly \in BOOLEAN, levels \in 1 .. MaxTexLevels }

CubeTex ==
    { TexDesc("Direct3D9", "RASTER_8888", 32, "COLOR_BGRA", 1, "PALETTE_NONE", c, "GL_NONE",
              TRUE, newly, 4, 4, levels) :
        c \in { "RWCOMPRESS_NONE", "RWCOMPRESS_DXT1" }, newly \in BOOLEAN,
        levels \in 1 .. MaxTexLevels }

DxtTex ==
    { TexDesc(name, "RASTER_DEFAULT", 0, "COLOR_RGBA", 1, "PALETTE_NONE", c, "GL_NONE",
              FALSE, newly, 4, 4, levels) :
        name \in Direct3D,
        c \in { "RWCOMPRESS_DXT1", "RWCOMPRESS_DXT2", "RWCOMPRESS_DXT3", "RWCOMPRESS_DXT4",
                "RWCOMPRESS_DXT5", "RWCOMPRESS_OTHER" },
        newly \in BOOLEAN, levels \in 1 .. MaxTexLevels }

PvrTex ==
    { TexDesc("PowerVR", "RASTER_DEFAULT", 0, "COLOR_RGBA", 1, "PALETTE_NONE",
              "RWCOMPRESS_NONE", g, FALSE, FALSE, 8, 8, levels) :
        g \in { "GL_COMPRESSED_RGB_PVRTC_2BPPV1_IMG", "GL_COMPRESSED_RGBA_PVRTC_2BPPV1_IMG",
                "GL_COMPRESSED_RGB_PVRTC_4BPPV1_IMG", "GL_COMPRESSED_RGBA_PVRTC_4BPPV1_IMG",
                "GL_NONE" },
        levels \in 1 .. MaxTexLevels }

OtherTex ==
    { TexDesc("OpenGL", "RASTER_8888", 32, "COLOR_BGRA", 1, "PALETTE_NONE",
              "RWCOMPRESS_NONE", "GL_NONE", FALSE, newly, 2, 2, 1) : newly \in BOOLEAN }

TexSources == RawTex \cup AlignTex \cup PalTex \cup CubeTex \cup DxtTex \cup PvrTex \cup OtherTex

\* Textures on which allocation and conversion failures are injected.
FaultTex ==
    { d \in RawTex \cup PalTex :
        /\ d.name = "Direct3D9"
        /\ d.levels = MaxTexLevels
        /\ d.rasterFormat \in { "RASTER_8888", "RASTER_1555" } }

\* Textures imported into a container that still carries the fields of a
\* failed load.
ReuseTex == { d \in FaultTex : d.colorOrder = "COLOR_ABGR" \/ d.paletteType # "PALETTE_NONE" }

TexFaultPoints == { NoFault } \cup 0 .. MaxTexLevels - 1

----------------------------------------------------------------------------
(* The targets and collaborator behaviours the export is run with. *)

TargetNames == { "Direct3D8", "Direct3D9", "PowerVR", "OpenGL" }

Recommended ==
    { "GL_COMPRESSED_RGBA_PVRTC_4BPPV1_IMG", "GL_COMPRESSED_RGB_PVRTC_2BPPV1_IMG" }

ExportEnvs ==
    { ExportEnv(TRUE, acquired, alphaScan, recommended, garbage, 0, 0, FALSE) :
        acquired \in BOOLEAN, alphaScan \in BOOLEAN, recommended \in Recommended,
        garbage \in BOOLEAN }
    \cup { ExportEnv(FALSE, TRUE, FALSE, "GL_COMPRESSED_RGBA_PVRTC_4BPPV1_IMG", FALSE,
                     0, 0, FALSE) }
    \cup { ExportEnv(TRUE, TRUE, FALSE, "GL_COMPRESSED_RGBA_PVRTC_4BPPV1_IMG", FALSE,
                     stage, level, convert) :
            stage \in 1 .. 3, level \in 0 .. MaxMip, convert \in BOOLEAN }

\* Leaves out the choices the target never looks at.
Relevant(name, x) ==
    /\ name \in Direct3D =>
        /\ x.recommended = "GL_COMPRESSED_RGBA_PVRTC_4BPPV1_IMG"
        /\ ~x.garbage
        /\ x.stage # 2
        /\ x.stage = 3 => x.level = 0 /\ ~x.convert
    /\ name = "PowerVR" => x.acquired /\ x.stage # 3 /\ ~x.convert
    /\ name = "OpenGL" =>
        /\ x.hasPvrEnv /\ x.acquired /\ ~x.alphaScan /\ ~x.garbage /\ x.stage = 0
        /\ x.recommended = "GL_COMPRESSED_RGBA_PVRTC_4BPPV1_IMG"

----------------------------------------------------------------------------
(* State *)

NoSnapshot == [ img |-> pvrNativeImage, levels |-> <<>> ]

\* The container and the bytes of its levels, as WriteNativeImage saw them.
Snapshot(image, h) ==
    [ img |-> image,
      levels |-> [ n \in 1 .. Len(image.mipmaps) |-> h[image.mipmaps[n].texels].data ] ]

NoStream == [ data |-> <<>>, pos |-> 0, written |-> FALSE, from |-> NoSnapshot ]

NoTex == NativeTexture("none", <<>>)

\* A file stream ends with the call that read it; written bytes stay available
\* for reading back.
KeepWritten(s) == IF s.written THEN s ELSE NoStream

Result(op, err) == [ op |-> op, ok |-> err = "", err |-> err ]

ImageInit ==
    /\ img = pvrNativeImage
    /\ heap = EmptyHeap
    /\ stream = NoStream
    /\ tex = NoTex
    /\ ret = Result("none", "")
    /\ feedback = "unassigned"
    /\ trace = <<>>
    /\ warnings = <<>>
    /\ hdr = NoHeader(0)
    /\ codec = NoDispatcher
    /\ calc = NoCalc
    /\ iface = Interface

Init ==
    /\ ImageInit
    /\ lib = Library(TRUE)
    /\ rwobjs = << >>

----------------------------------------------------------------------------
(* Stream handlers as actions *)

\* The full set of files and textures is loaded into the constructed
\* container; a container that has been used before is reused for the
\* files of ReuseFiles and the textures of ReuseTex.
Quiescent == ret.op = "none"

\* A failed load or a deallocating clear has just returned.
Reusable ==
    \/ ret.op = "ReadNativeImage" /\ ~ret.ok
    \/ ret.op = "ClearImageData" /\ ret.err = "deallocate"

\* The container has just been constructed or loaded.
Loaded ==
    /\ ~stream.written
    /\ \/ ret.op = "none"
       \/ ret.op \in { "ReadNativeImage", "ReadFromNativeTexture" } /\ ret.ok

\* The state after ReadNativeImage returned r on the stream bytes data.
AfterRead(r, data, written, from) ==
    /\ img' = r.img
    /\ heap' = r.heap
    /\ stream' = [ data |-> data, pos |-> r.pos, written |-> written, from |-> from ]
    /\ tex' = NoTex
    /\ ret' = Result("ReadNativeImage", r.err)
    /\ feedback' = "unassigned"
    /\ trace' = r.trace
    /\ warnings' = r.warnings
    /\ hdr' = readLegacyVersionHeader(data)
    /\ UNCHANGED sideVars

ReadStream(data, failAlloc, failRead, written, from) ==
    AfterRead(ReadNativeImage(img, Carry(heap, img), data, failAlloc, failRead),
              data, written, from)

\* ReadNativeImage on a file, into a container that holds no level.
DoReadNativeImage ==
    /\ img.mipmaps = <<>>
    /\ ~stream.written
    /\ \E f \in Files, failAlloc \in FaultPoints, failRead \in FaultPoints :
        /\ (failAlloc # NoFault \/ failRead # NoFault) => f \in FaultFiles
        /\ ~Quiescent => Reusable /\ f \in ReuseFiles /\ failAlloc = NoFault /\ failRead = NoFault
        /\ ReadStream(FileBytes(f), failAlloc, failRead, FALSE, NoSnapshot)

\* ReadNativeImage on the bytes WriteNativeImage has just produced.
DoReadBack ==
    /\ img.mipmaps = <<>>
    /\ stream.written
    /\ ReadStream(stream.data, NoFault, NoFault, TRUE, stream.from)

DoIsStreamNativeImage ==
    /\ img = pvrNativeImage
    /\ Quiescent
    /\ ~stream.written
    /\ \E f \in Files :
        /\ img' = img
        /\ heap' = Carry(heap, img)
        /\ stream' = [ NoStream EXCEPT !.data = FileBytes(f) ]
        /\ tex' = NoTex
        /\ ret' = [ op |-> "IsStreamNativeImage", ok |-> IsStreamNativeImage(FileBytes(f)),
                    err |-> "" ]
        /\ feedback' = "unassigned"
        /\ trace' = <<>>
        /\ warnings' = <<>>
        /\ hdr' = readLegacyVersionHeader(FileBytes(f))
        /\ UNCHANGED sideVars

\* The state after ReadFromNativeTexture or WriteToNativeTexture returned r.
AfterTexture(op, r) ==
    /\ img' = r.img
    /\ heap' = r.heap
    /\ stream' = NoStream
    /\ tex' = r.tex
    /\ ret' = Result(op, r.err)
    /\ feedback' = r.feedback
    /\ trace' = r.trace
    /\ warnings' = <<>>
    /\ hdr' = NoHeader(0)
    /\ UNCHANGED sideVars

\* ReadFromNativeTexture from a fetched texture, into a container that holds
\* no level.
DoReadFromNativeTexture ==
    /\ img.mipmaps = <<>>
    /\ ~stream.written
    /\ \E d \in TexSources, failAlloc \in TexFaultPoints, failConvert \in TexFaultPoints :
        /\ (failAlloc # NoFault \/ failConvert # NoFault) => d \in FaultTex
        /\ ~Quiescent => Reusable /\ d \in ReuseTex
        /\ AfterTexture("ReadFromNativeTexture",
                        ReadFromNativeTexture(img, GiveBuffers(Fetch(d)), Fetch(d),
                                              failAlloc, failConvert))

\* WriteToNativeTexture of the container into an empty native texture.
DoWriteToNativeTexture ==
    /\ Loaded
    /\ \E name \in TargetNames, x \in ExportEnvs :
        /\ Relevant(name, x)
        /\ AfterTexture("WriteToNativeTexture",
                        WriteToNativeTexture(img, Carry(heap, img), name, x))

DoWriteNativeImage ==
    /\ Loaded
    /\ img' = img
    /\ heap' = Carry(heap, img)
    /\ stream' = IF Len(img.mipmaps) = 0
                 THEN NoStream
                 ELSE [ data |-> WriteNativeImage(img, heap),
                        pos |-> Len(WriteNativeImage(img, heap)),
                        written |-> TRUE, from |-> Snapshot(img, heap) ]
    /\ tex' = NoTex
    /\ ret' = Result("WriteNativeImage",
                     IF Len(img.mipmaps) = 0
                     THEN "attempt to write empty PVR native image file" ELSE "")
    /\ feedback' = "unassigned"
    /\ trace' = <<>>
    /\ warnings' = <<>>
    /\ hdr' = NoHeader(0)
    /\ UNCHANGED sideVars

DoClearImageData ==
    \E deallocate \in BOOLEAN :
        LET r == ClearImageData(img, Carry(heap, img), deallocate)
        IN  /\ img' = r.img
            /\ heap' = r.heap
            /\ stream' = KeepWritten(stream)
            /\ tex' = NoTex
            /\ ret' = [ op |-> "ClearImageData", ok |-> TRUE,
                        err |-> IF deallocate THEN "deallocate" ELSE "keep" ]
            /\ feedback' = "unassigned"
            /\ trace' = r.trace
            /\ warnings' = <<>>
            /\ hdr' = NoHeader(0)
            /\ UNCHANGED sideVars

Next ==
    \/ DoReadNativeImage
    \/ DoReadFromNativeTexture
    \/ DoWriteToNativeTexture
    \/ DoReadBack
    \/ DoIsStreamNativeImage
    \/ DoWriteNativeImage
    \/ DoClearImageData

Spec == Init /\ [][Next]_vars

----------------------------------------------------------------------------
(* The sample codec on its own: a dispatcher is made for a format, as the *)
(* transcoding loops make it, and texels are put and fetched through it.  *)

MaxTexels == 2

\* The formats a dispatcher is made for: every format under both sample
\* models and one format of each other classification.
DispatchFormats == { f \in EnumFormats : getPVRLegacyPixelFormatType(f) \in { "RGBA", "LUMINANCE" } } \cup { A8, DXT1 }

InputRGBA == { RGBAColor(130, 64, 200, 255), RGBAColor(255, 7, 16, 0) }

InputLum == { LumColor(130, 255), LumColor(77, 0) }

\* What an output variable of the caller may hold before a fetch.
PriorRGBA == { RGBAColor(0, 0, 0, 0), RGBAColor(99, 99, 99, 99) }

PriorLum == { LumColor(0, 0), LumColor(99, 99) }

\* A buffer of MaxTexels texels of the format's depth, every byte 0xAA.
TexelBuffer(pixelFormat) ==
    LET size == (getPVRLegacyFormatDepth(pixelFormat) * MaxTexels + 7) \div 8
    IN  [ k \in 1..size |-> 170 ]

Dispatcher(pixelFormat, formatType, isLittleEndian) == [ call |-> "new", pixelFormat |-> pixelFormat, colorModel |-> formatType, isLittleEndian |-> isLittleEndian, texels |-> TexelBuffer(pixelFormat) ]

\* The state after a call on the dispatcher returned r.
AfterCall(call, colorIndex, input, r) ==
    /\ codec' = [ call |-> call, pixelFormat |-> codec.pixelFormat, colorModel |-> codec.colorModel,
                  isLittleEndian |-> codec.isLittleEndian, texels |-> r.texels,
                  colorIndex |-> colorIndex, input |-> input, ok |-> r.ok, out |-> r.out,
                  thrown |-> r.thrown ]
    /\ UNCHANGED <<imageVars, lib, rwobjs, calc, iface>>

SetCalls == { "setRGBA", "setLuminance", "setColor" }

GetCalls == { "getRGBA", "getLuminance", "getColor" }

\* A texel is put into a fresh buffer, or after a put that stored nothing.
CanPut == codec.call = "new" \/ (codec.call \in SetCalls /\ ~codec.thrown /\ codec.texels = TexelBuffer(codec.pixelFormat))

\* A texel is fetched after a put or another fetch.
CanGet == codec.call \in SetCalls \cup GetCalls /\ ~codec.thrown

NewDispatcher ==
    /\ codec.call = "none"
    /\ \E pixelFormat \in DispatchFormats, isLittleEndian \in BOOLEAN :
          codec' = Dispatcher(pixelFormat, getPVRLegacyPixelFormatType(pixelFormat), isLittleEndian)
    /\ UNCHANGED <<imageVars, lib, rwobjs, calc, iface>>

DoSetRGBA ==
    /\ CanPut
    /\ \E colorIndex \in 0..(MaxTexels - 1), color \in InputRGBA, garbage \in 0..1 :
          AfterCall("setRGBA", colorIndex, color, setRGBA(codec, codec.texels, colorIndex, color, garbage))

DoSetLuminance ==
    /\ CanPut
    /\ \E colorIndex \in 0..(MaxTexels - 1), color \in InputLum, garbage \in 0..1 :
          AfterCall("setLuminance", colorIndex, color, setLuminance(codec, codec.texels, colorIndex, color, garbage))

DoSetColor ==
    /\ CanPut
    /\ \E colorIndex \in 0..(MaxTexels - 1), color \in InputRGBA \cup InputLum, garbage \in 0..1 :
          AfterCall("setColor", colorIndex, color, setColor(codec, codec.texels, colorIndex, color, garbage))

DoGetRGBA ==
    /\ CanGet
    /\ \E colorIndex \in 0..(MaxTexels - 1), prior \in PriorRGBA :
          AfterCall("getRGBA", colorIndex, prior, getRGBA(codec, codec.texels, colorIndex, prior))

DoGetLuminance ==
    /\ CanGet
    /\ \E colorIndex \in 0..(MaxTexels - 1), prior \in PriorLum :
          AfterCall("getLuminance", colorIndex, prior, getLuminance(codec, codec.texels, colorIndex, prior))

DoGetColor ==
    /\ CanGet
    /\ \E colorIndex \in 0..(MaxTexels - 1), prior \in PriorLum :
          AfterCall("getColor", colorIndex, prior, getColor(codec, codec.texels, colorIndex, prior))

CodecNext ==
    \/ NewDispatcher
    \/ DoSetRGBA
    \/ DoSetLuminance
    \/ DoSetColor
    \/ DoGetRGBA
    \/ DoGetLuminance
    \/ DoGetColor

CodecSpec == Init /\ [][CodecNext]_vars

----------------------------------------------------------------------------
(* The library on its own: engines are created and deleted, objects are    *)
(* constructed, acquired and released.                                     *)

MaxEngines == 2

MaxObjects == 2

MaxRefCount == 3

Versions == { "3.4.0.3", "3.6.0.3" }

LiveEngines == { e.id : e \in lib.engines }

\* The engine the factory constructs next; NULL when it is out of memory.
FreeEngine == IF LiveEngines = 1 .. MaxEngines THEN NULL ELSE CHOOSE e \in 1 .. MaxEngines : e \notin LiveEngines /\ \A d \in 1 .. MaxEngines : d \notin LiveEngines => e <= d

InterfaceInit ==
    /\ ImageInit
    /\ lib \in { Library(TRUE), Library(FALSE) }
    /\ rwobjs = [ o \in 1 .. MaxObjects |-> NoObject ]

\* engineFactory.Construct returns an engine or, out of memory, NULL.
DoCreateEngine ==
    /\ \E theVersion \in Versions, engineOut \in { FreeEngine, NULL } :
          lib' = CreateEngine(lib, theVersion, engineOut)
    /\ UNCHANGED <<imageVars, codec, rwobjs, calc, iface>>

DoDeleteEngine ==
    /\ \A o \in 1 .. MaxObjects : ~rwobjs[o].live
    /\ \E theEngine \in LiveEngines : lib' = DeleteEngine(lib, theEngine)
    /\ UNCHANGED <<imageVars, codec, rwobjs, calc, iface>>

DoConstructRwObject ==
    /\ LiveEngines # {}
    /\ \E o \in 1 .. MaxObjects :
          /\ ~rwobjs[o].live
          /\ rwobjs[o].destroyed = 0
          /\ rwobjs' = [ rwobjs EXCEPT ![o] = [ ConstructRwObject EXCEPT !.call = "ConstructRwObject" ] ]
    /\ UNCHANGED <<imageVars, codec, lib, calc, iface>>

DoAcquireObject ==
    /\ \E o \in 1 .. MaxObjects :
          /\ rwobjs[o].live
          /\ GetRefCount(rwobjs[o]) < MaxRefCount
          /\ rwobjs' = [ rwobjs EXCEPT ![o] = [ AcquireObject(@) EXCEPT !.call = "AcquireObject" ] ]
    /\ UNCHANGED <<imageVars, codec, lib, calc, iface>>

DoReleaseObject ==
    /\ \E o \in 1 .. MaxObjects :
          /\ rwobjs[o].live
          /\ rwobjs' = [ rwobjs EXCEPT ![o] = [ ReleaseObject(@) EXCEPT !.call = "ReleaseObject" ] ]
    /\ UNCHANGED <<imageVars, codec, lib, calc, iface>>

DoDeleteRwObject ==
    /\ \E o \in 1 .. MaxObjects :
          /\ rwobjs[o].live
          /\ rwobjs' = [ rwobjs EXCEPT ![o] = [ DeleteRwObject(@) EXCEPT !.call = "DeleteRwObject" ] ]
    /\ UNCHANGED <<imageVars, codec, lib, calc, iface>>

InterfaceNext ==
    \/ DoCreateEngine
    \/ DoDeleteEngine
    \/ DoConstructRwObject
    \/ DoAcquireObject
    \/ DoReleaseObject
    \/ DoDeleteRwObject

InterfaceSpec == InterfaceInit /\ [][InterfaceNext]_vars

----------------------------------------------------------------------------
(* The format computations on their own.                                   *)

MaxLevelSize == 9

RasterFormats == { "RASTER_DEFAULT", "RASTER_1555", "RASTER_565", "RASTER_4444", "RASTER_LUM", "RASTER_8888", "RASTER_888", "RASTER_555", "RASTER_LUM_ALPHA" }

RasterDepths == { 4, 8, 16, 24, 32 }

ColorOrders == { "COLOR_RGBA", "COLOR_BGRA", "COLOR_ABGR" }

DXTFormats == { DXT1, DXT2, DXT3, DXT4, DXT5 }

\* Small logical sizes, aligned to the block or not, and the size at which
\* a level of one byte per texel needs 2^32 bytes.
LogicalSizes == (1 .. MaxLevelSize) \cup { 65536 }

DoFormatLink ==
    /\ \E rasterFormat \in RasterFormats, depth \in RasterDepths, colorOrder \in ColorOrders :
          calc' = FormatLink(rasterFormat, depth, colorOrder)
    /\ UNCHANGED <<imageVars, codec, lib, rwobjs, iface>>

DoLevelBlocks ==
    /\ \E pixelFormat \in DXTFormats, layerWidth \in LogicalSizes, layerHeight \in LogicalSizes :
          calc' = LevelBlocks(pixelFormat, layerWidth, layerHeight)
    /\ UNCHANGED <<imageVars, codec, lib, rwobjs, iface>>

FormatNext ==
    \/ DoFormatLink
    \/ DoLevelBlocks

FormatSpec == Init /\ [][FormatNext]_vars

----------------------------------------------------------------------------
(* The warning routing on its own.                                         *)

MaxHandlers == 3

MaxWarnings == 2

WarningLevels == { 0 - 1, 0, 1, 3 }

Messages == { "first", "second" }

RECURSIVE CountReceived(_, _)
CountReceived(received, sinks) ==
    IF sinks = {} THEN 0
    ELSE LET s == CHOOSE x \in sinks : TRUE
         IN  Len(received[s]) + CountReceived(received, sinks \ { s })

DoSetWarningManager ==
    /\ \E warningMan \in WarningManagers \cup { NULL } : iface' = SetWarningManager(iface, warningMan)
    /\ UNCHANGED <<imageVars, codec, lib, rwobjs, calc>>

DoSetWarningLevel ==
    /\ \E level \in WarningLevels : iface' = SetWarningLevel(iface, level)
    /\ UNCHANGED <<imageVars, codec, lib, rwobjs, calc>>

DoGlobalPushWarningHandler ==
    /\ Len(iface.warningHandlerStack) < MaxHandlers
    /\ \E theHandler \in WarningHandlers : iface' = GlobalPushWarningHandler(iface, theHandler)
    /\ UNCHANGED <<imageVars, codec, lib, rwobjs, calc>>

\* The handler stack is not empty: the call asserts it.
DoGlobalPopWarningHandler ==
    /\ iface.warningHandlerStack # <<>>
    /\ iface' = GlobalPopWarningHandler(iface)
    /\ UNCHANGED <<imageVars, codec, lib, rwobjs, calc>>

DoPushWarning ==
    /\ CountReceived(iface.received, Sinks) < MaxWarnings
    /\ \E message \in Messages : iface' = PushWarning(iface, message)
    /\ UNCHANGED <<imageVars, codec, lib, rwobjs, calc>>

WarningNext ==
    \/ DoSetWarningManager
    \/ DoSetWarningLevel
    \/ DoGlobalPushWarningHandler
    \/ DoGlobalPopWarningHandler
    \/ DoPushWarning

WarningSpec == Init /\ [][WarningNext]_vars

----------------------------------------------------------------------------
(* Claims about the stream handlers *)

ReadReturned == ret.op = "ReadNativeImage"

ReadFailed == ReadReturned /\ ~ret.ok

ReadSucceeded == ReadReturned /\ ret.ok

HeaderParsed == ret.op \in { "ReadNativeImage", "IsStreamNativeImage" }

\* The buffers PixelAllocate returned during the call.
Allocated(tr) == { tr[i].buf : i \in { j \in 1 .. Len(tr) : tr[j].e = "alloc" } }

UnsupportedBit(f) == f.isCubeMap \/ f.isVolumeTexture \/ f.isVerticallyFlipped

\* C2: a stream whose leading size field is 44, or 52 with the right magic,
\* only when read big-endian is accepted by readLegacyVersionHeader with
\* isLittleEndian = FALSE, and its header fields are decoded big-endian.
C2_BothByteOrders ==
    (/\ HeaderParsed
     /\ Len(stream.data) >= 4
     /\ Field(stream.data, 0, TRUE) \notin { 44, 52 }
     /\ Field(stream.data, 0, FALSE) \in { 44, 52 }
     /\ Len(stream.data) >= Field(stream.data, 0, FALSE)
     /\ Field(stream.data, 0, FALSE) = 52 => Field(stream.data, 44, FALSE) = 559044176)
    => /\ hdr.ok
       /\ ~hdr.isLittleEndian
       /\ hdr.height = Field(stream.data, 4, FALSE)
       /\ hdr.width = Field(stream.data, 8, FALSE)
       /\ hdr.mipmapCount = Field(stream.data, 12, FALSE)
       /\ hdr.surfaceSize = Field(stream.data, 20, FALSE)

C3_Step ==
    ret'.op \in { "ReadNativeImage", "IsStreamNativeImage" } =>
        LET data == stream'.data
            size == IF Len(data) < 4 THEN 0 ELSE Field(data, 0, TRUE)
            rejected == \/ size \notin { 44, 52 }
                        \/ Len(data) < size
                        \/ size = 52 /\ Field(data, 44, TRUE) # 559044176
        IN  /\ hdr'.ok <=> ~rejected
            /\ rejected => /\ ~ret'.ok
                           /\ img' = img
                           /\ ret'.op = "ReadNativeImage" => ret'.err # ""

C4_FailedReadFreesAll ==
    ReadFailed =>
        /\ \A b \in Allocated(trace) : ~heap[b].live
        /\ img.mipmaps = <<>>

\* The byte size of the base level of the parsed header.
BaseLevelSize ==
    LET pixelFormat == hdr.formatField.pixelFormat
        surf == getPVRLegacyFormatSurfaceDimensions(pixelFormat, hdr.width, hdr.height)
    IN  getRasterDataRowSize(surf.w, getPVRLegacyFormatDepth(pixelFormat), 1) * surf.h

\* C8: a declared surfaceSize below the base level's byte size makes
\* ReadNativeImage fail with no PixelAllocate call made, and at every level
\* the budget check precedes that level's allocation.
C8_BudgetBeforeAllocation ==
    ReadReturned =>
        /\ (/\ hdr.ok
            /\ ValidateHeader(hdr) = ""
            /\ hdr.width # 0 /\ hdr.height # 0
            /\ hdr.surfaceSize < BaseLevelSize)
           => /\ ~ret.ok
              /\ \A i \in 1 .. Len(trace) : trace[i].e \notin { "alloc", "allocfail" }
              /\ LiveBufs(heap) = {}
        /\ \A i \in 1 .. Len(trace) :
              trace[i].e \in { "alloc", "allocfail" } =>
                  \E j \in 1 .. i - 1 :
                      /\ trace[j].e = "budget"
                      /\ trace[j].lvl = trace[i].lvl
                      /\ trace[j].n = trace[i].n

\* C8 holds for every file whose count field is not 0xFFFFFFFF.
C8_ExceptMaxCount == hdr.mipmapCount # UINT32_MAX => C8_BudgetBeforeAllocation

\* A declared size below the base level, rejected with nothing allocated.
C8_Witness ==
    /\ ReadFailed
    /\ hdr.ok
    /\ hdr.surfaceSize < BaseLevelSize
    /\ ret.err = "too little surface data in PVR native image"
    /\ trace = <<>>

\* A level allocated behind its budget check.
C8_WitnessAllocated ==
    /\ ReadSucceeded
    /\ Len(img.mipmaps) = 2
    /\ \E i \in 1 .. Len(trace) : trace[i].e = "alloc" /\ trace[i].lvl = 1

TwiddleErrors ==
    { "twiddled but width and height are not POT and squared",
      "twiddled PVR native images are not supported" }

\* C9: for a parsed header with a valid pixel format and no cubemap, volume
\* or vertical-flip bit, a set dataIsTwiddled bit is accepted exactly when
\* width = height, both are powers of two and the format is COMPRESSED; a
\* clear bit triggers neither check.
C9_TwiddleValidation ==
    (/\ ReadReturned
     /\ hdr.ok
     /\ isValidPVRLegacyPixelFormat(hdr.formatField.pixelFormat)
     /\ ~UnsupportedBit(hdr.formatField))
    => IF hdr.formatField.dataIsTwiddled
       THEN (ret.err \notin TwiddleErrors)
            <=> (/\ hdr.width = hdr.height
                 /\ \E k \in 0 .. 30 : hdr.width = 2 ^ k
                 /\ \E k \in 0 .. 30 : hdr.height = 2 ^ k
                 /\ getPVRLegacyPixelFormatType(hdr.formatField.pixelFormat) = "COMPRESSED")
       ELSE ret.err \notin TwiddleErrors

\* A twiddled square compressed image read into the container.
C9_Witness ==
    /\ ReadSucceeded
    /\ hdr.formatField.dataIsTwiddled
    /\ img.dataIsTwiddled
    /\ Len(img.mipmaps) >= 1

\* A twiddled square image of a format classified UNKNOWN, rejected.
C9_WitnessRejected ==
    /\ ReadFailed
    /\ hdr.formatField.dataIsTwiddled
    /\ hdr.width = hdr.height
    /\ getPVRLegacyPixelFormatType(hdr.formatField.pixelFormat) = "UNKNOWN"
    /\ ret.err = "twiddled PVR native images are not supported"

C10_Step ==
    ret'.op = "ReadNativeImage" =>
        /\ (hdr'.ok /\ UnsupportedBit(hdr'.formatField))
           => /\ ~ret'.ok
              /\ ret'.err # ""
              /\ img' = img
              /\ Allocated(trace') = {}
              /\ LiveBufs(heap') = LiveBufs(heap) \cap LayerBufs(img.mipmaps)
        /\ ret'.ok => /\ ~img'.isCubeMap
                      /\ ~img'.isVolumeTexture
                      /\ ~img'.isVerticallyFlipped

\* C10: ReadNativeImage rejects every header with the cubemap, volume or
\* vertical-flip bit set before any buffer is allocated and before any field
\* of the container is written, so a container a successful read populated
\* has all three flags false.
C10_UnsupportedBitsRejected == [][C10_Step]_vars

\* A cubemap header rejected on a container that carries stored fields.
C10_Witness ==
    /\ ReadFailed
    /\ hdr.ok
    /\ hdr.formatField.isCubeMap
    /\ img # pvrNativeImage
    /\ trace = <<>>

----------------------------------------------------------------------------
(* Claims about the texture handlers *)

ImportReturned == ret.op = "ReadFromNativeTexture"

ExportReturned == ret.op = "WriteToNativeTexture"

\* The buffers PixelFree was called on during the call.
Freed(tr) ==
    { tr[i].buf : i \in { j \in 1 .. Len(tr) : tr[j].e \in { "free", "badfree" } } }

\* How often PixelFree was called on buffer b during the call.
FreeCount(tr, b) ==
    Cardinality({ j \in 1 .. Len(tr) : tr[j].e \in { "free", "badfree" } /\ tr[j].buf = b })

\* The level and palette buffers the fetch of the native texture returned.
FetchedBufs(t) == LayerBufs(t.mipmaps) \cup ({ t.paletteData } \ { NULL })

\* Level n of both sides references the same buffer.
SameBuffers(a, b) ==
    /\ Len(a) = Len(b)
    /\ \A n \in 1 .. Len(a) : a[n].texels = b[n].texels /\ a[n].texels # NULL

\* The container read back is the container that was written.
RoundTrip(from, image, h) ==
    /\ image.pixelFormat = from.img.pixelFormat
    /\ image.dataIsTwiddled = from.img.dataIsTwiddled
    /\ image.containsNormalData = from.img.containsNormalData
    /\ image.hasBorder = from.img.hasBorder
    /\ image.isCubeMap = from.img.isCubeMap
    /\ image.mipmapsHaveDebugColoring = from.img.mipmapsHaveDebugColoring
    /\ image.isVolumeTexture = from.img.isVolumeTexture
    /\ image.hasAlphaChannel_pvrtc = from.img.hasAlphaChannel_pvrtc
    /\ image.isVerticallyFlipped = from.img.isVerticallyFlipped
    /\ image.bitDepth = from.img.bitDepth
    /\ image.isLittleEndian = from.img.isLittleEndian
    /\ Len(image.mipmaps) = Len(from.img.mipmaps)
    /\ \A n \in 1 .. Len(image.mipmaps) :
          /\ n <= Len(from.img.mipmaps)
          /\ image.mipmaps[n].layerWidth = from.img.mipmaps[n].layerWidth
          /\ image.mipmaps[n].layerHeight = from.img.mipmaps[n].layerHeight
          /\ image.mipmaps[n].width = from.img.mipmaps[n].width
          /\ image.mipmaps[n].height = from.img.mipmaps[n].height
          /\ image.mipmaps[n].dataSize = from.img.mipmaps[n].dataSize
          /\ image.mipmaps[n].texels # NULL
          /\ h[image.mipmaps[n].texels].data = from.levels[n]

\* C1: reading the bytes WriteNativeImage wrote into an empty container
\* succeeds and reproduces the pixel format, the flags, the bit depth, the
\* endianness and every level's dimensions, data size and texel bytes.
C1_RoundTrip ==
    (ReadReturned /\ stream.written) =>
        /\ ret.ok
        /\ RoundTrip(stream.from, img, heap)

\* A container that round-trips.
C1_Witness ==
    /\ ReadSucceeded
    /\ stream.written
    /\ Len(img.mipmaps) = 2
    /\ RoundTrip(stream.from, img, heap)

LoopErrors == { "failed to allocate destination layer", "conversion failed" }

C5_Step ==
    (ret'.op = "ReadFromNativeTexture" /\ ret'.err \in LoopErrors) =>
        /\ ~ret'.ok
        /\ img' = img
        /\ \A b \in Allocated(trace') : ~heap'[b].live /\ FreeCount(trace', b) = 1
        /\ \A b \in LayerBufs(tex'.mipmaps) :
              IF tex'.srcLayersIsNewlyAllocated
              THEN ~heap'[b].live /\ FreeCount(trace', b) = 1
              ELSE heap'[b].live /\ FreeCount(trace', b) = 0
        /\ \A i \in 1 .. Len(trace') : trace'[i].e # "badfree"

\* C5: when allocation or conversion of a level fails inside the transcoding
\* loop of ReadFromNativeTexture, every buffer the call allocated is freed
\* exactly once, the source buffers are freed only if they were handed over
\* as newly allocated, the error reaches the caller and the container is
\* what it was before the call.
C5_ImportRollback == [][C5_Step]_vars

\* A failure at level 1 of handed-over layers, on a container that carries
\* stored fields: the buffer of level 0 was allocated and freed again.
C5_Witness ==
    /\ ImportReturned
    /\ ret.err \in LoopErrors
    /\ tex.srcLayersIsNewlyAllocated
    /\ img # pvrNativeImage
    /\ \E i \in 1 .. Len(trace) : trace[i].e = "alloc" /\ trace[i].lvl = 0
    /\ \E i \in 1 .. Len(trace) : trace[i].e \in { "allocfail", "alloc" } /\ trace[i].lvl = 1

\* The buffers a texture handler was lent: the fetched buffers of a texture
\* that keeps them, the level buffers of the exported container.
Borrowed ==
    IF ImportReturned
    THEN IF tex.srcLayersIsNewlyAllocated THEN {} ELSE FetchedBufs(tex)
    ELSE IF ExportReturned THEN LayerBufs(img.mipmaps)
    ELSE {}

\* The buffers a texture handler was given to own.
HandedOver ==
    IF ImportReturned /\ tex.srcLayersIsNewlyAllocated THEN FetchedBufs(tex) ELSE {}

\* C6: ReadFromNativeTexture and WriteToNativeTexture free no buffer they
\* neither allocated nor received as newly allocated; the texture's own level
\* buffers (import) and the container's level buffers (export) are still
\* allocated when the call returns or throws.
C6_BorrowedNeverFreed ==
    (ImportReturned \/ ExportReturned) =>
        /\ \A b \in Borrowed : heap[b].live /\ b \notin Freed(trace)
        /\ Freed(trace) \subseteq Allocated(trace) \cup HandedOver

\* An export that failed behind its first level: the buffer it allocated is
\* freed, the two levels of the container are not.
C6_Witness ==
    /\ ExportReturned
    /\ ~ret.ok
    /\ Len(img.mipmaps) = 2
    /\ Freed(trace) # {}

\* An import that failed converting the levels a texture keeps.
C6_WitnessImport ==
    /\ ImportReturned
    /\ ~ret.ok
    /\ ~tex.srcLayersIsNewlyAllocated
    /\ Len(tex.mipmaps) = 2
    /\ Freed(trace) # {}

\* The receiving side references the giving side's original level buffers.
DirectlyAcquired ==
    IF ImportReturned
    THEN ~tex.srcLayersIsNewlyAllocated /\ SameBuffers(img.mipmaps, tex.mipmaps)
    ELSE SameBuffers(tex.mipmaps, img.mipmaps)

\* C7: every successful return of WriteToNativeTexture and of
\* ReadFromNativeTexture assigns hasDirectlyAcquired, true exactly when the
\* receiving side references the giving side's original level buffers.
C7_FeedbackAssigned ==
    ((ImportReturned \/ ExportReturned) /\ ret.ok) =>
        /\ feedback # "unassigned"
        /\ feedback = "true" <=> DirectlyAcquired

\* A container with levels exported by reference.
C7_Witness ==
    /\ ExportReturned
    /\ ret.ok
    /\ Len(img.mipmaps) >= 1
    /\ feedback = "true"
    /\ DirectlyAcquired

----------------------------------------------------------------------------
(* Claims about the format tables *)

InvalidFormat == "invalid PVR native image (legacy) pixel format"

\* C11: isValidPVRLegacyPixelFormat is true for exactly the ids of the
\* enumeration, RGB_888 and RGB_888_SEC included: a parsed header is rejected
\* for its pixel format by ReadNativeImage, and refused by
\* IsStreamNativeImage, exactly when its id is not enumerated.
C11_ValidIsEnumerated ==
    /\ (HeaderParsed /\ hdr.ok) =>
          (isValidPVRLegacyPixelFormat(hdr.formatField.pixelFormat)
              <=> hdr.formatField.pixelFormat \in EnumFormats)
    /\ (ReadReturned /\ hdr.ok) =>
          (ret.err = InvalidFormat <=> hdr.formatField.pixelFormat \notin EnumFormats)
    /\ (ret.op = "IsStreamNativeImage" /\ hdr.ok
           /\ hdr.formatField.pixelFormat \notin EnumFormats) => ~ret.ok

\* An id of a gap of the enumeration, rejected by ReadNativeImage.
C11_Witness ==
    /\ ReadFailed
    /\ hdr.ok
    /\ hdr.formatField.pixelFormat \notin EnumFormats
    /\ ret.err = InvalidFormat

\* C12: every id classified UNKNOWN is rejected by the validity check, so the
\* pixel format of a container loaded by ReadNativeImage is classified RGBA,
\* LUMINANCE or COMPRESSED.
C12_UnknownFailsClosed ==
    /\ (HeaderParsed /\ hdr.ok) =>
          (getPVRLegacyPixelFormatType(hdr.formatField.pixelFormat) = "UNKNOWN"
              => ~isValidPVRLegacyPixelFormat(hdr.formatField.pixelFormat))
    /\ ReadSucceeded => getPVRLegacyPixelFormatType(img.pixelFormat) # "UNKNOWN"

\* A loaded container whose format is classified RGBA.
C12_Witness ==
    /\ ReadSucceeded
    /\ Len(img.mipmaps) >= 1
    /\ getPVRLegacyPixelFormatType(img.pixelFormat) = "RGBA"

\* The members a put branch of the dispatcher's model stores a channel in.
StoredMembers(d) == LET layout == IF d.colorModel = "RGBA" THEN puttexelrgba_color(d.pixelFormat) ELSE texellum_color(d.pixelFormat) IN { layout[i] : i \in { j \in 1..Len(layout) : layout[j].ch # "x" } }

\* An 8-bit sample quantized to a member's width: scaled down to the member
\* and back up, both to nearest.
Quantized(sample, m) == IF m.isFloat THEN sample ELSE destscalecolor(putscalecolor(sample, MemberMax(m)), MemberMax(m))

\* A fetch follows a put of the dispatcher's own model at the same index.
RoundTripStep ==
    /\ codec.call \in { "setRGBA", "setLuminance" }
    /\ codec.colorModel \in { "RGBA", "LUMINANCE" }
    /\ codec.call = (IF codec.colorModel = "RGBA" THEN "setRGBA" ELSE "setLuminance")
    /\ codec'.call = (IF codec.colorModel = "RGBA" THEN "getRGBA" ELSE "getLuminance")
    /\ codec'.colorIndex = codec.colorIndex

\* C13: for every RGBA or LUMINANCE format and either endianness, the put of
\* the format's own model reports success, and the fetch that follows it at
\* the same index reports success and returns, in every channel the format
\* stores, the input sample of that channel quantized to the channel's width.
C13_SampleRoundTrip ==
    [][ RoundTripStep =>
          /\ codec.ok
          /\ codec'.ok
          /\ \A m \in StoredMembers(codec) : codec'.out[m.ch] = Quantized(codec.input[m.ch], m) ]_vars

\* A 5-6-5 texel fetched after the put of (130, 64, 200): 130 comes back as 132.
C13_Witness ==
    /\ codec.call = "getRGBA"
    /\ codec.pixelFormat = RGB_565
    /\ codec.ok
    /\ codec.out = RGBAColor(132, 65, 197, 255)

\* A put of the given kind has just returned on a LUMINANCE dispatcher.
LuminancePut(call) == codec'.call = call /\ codec'.colorModel = "LUMINANCE"

\* C14: on a dispatcher whose colour model is LUMINANCE, setRGBA returns
\* false and leaves every byte of the texel buffer as it was, for every
\* format, index and colour; setColor with an RGBA colour writes nothing
\* either; setLuminance on the same dispatcher reports success and stores
\* the sample, so that fetching the texel returns it.
C14_SetRGBAOnLuminance ==
    [][ /\ LuminancePut("setRGBA") =>
              ~codec'.ok /\ ~codec'.thrown /\ codec'.texels = codec.texels
        /\ (LuminancePut("setColor") /\ "r" \in DOMAIN codec'.input) =>
              ~codec'.thrown /\ codec'.texels = codec.texels
        /\ LuminancePut("setLuminance") =>
              /\ codec'.ok
              /\ getLuminance(codec', codec'.texels, codec'.colorIndex, LumColor(0, 0)).out.l
                    = Quantized(codec'.input.l, CHOOSE m \in StoredMembers(codec') : m.ch = "l") ]_vars

\* setRGBA returned false on an 8-bit luminance format and the buffer still
\* holds its fill.
C14_Witness ==
    /\ codec.call = "setRGBA"
    /\ codec.pixelFormat = I8
    /\ codec.colorModel = "LUMINANCE"
    /\ ~codec.ok
    /\ codec.texels = TexelBuffer(I8)

\* A successful import of uncompressed Direct3D levels.
UncompressedImport ==
    /\ ImportReturned
    /\ ret.ok
    /\ tex.name \in Direct3D
    /\ tex.compressionType = "RWCOMPRESS_NONE"
    /\ tex.mipmaps # <<>>

\* The three conditions of adoption, on the fetched texture.
CanAdopt(t) ==
    /\ t.paletteType = "PALETTE_NONE"
    /\ getPVRLegacyRawColorFormatLink(t.rasterFormat, t.depth, t.colorOrder).canDirectlyAcquire
    /\ ~doesPixelDataNeedAddressabilityAdjustment(t.mipmaps, t.depth, t.rowAlignment, getPVRLegacyFormatDepth(getPVRLegacyRawColorFormatLink(t.rasterFormat, t.depth, t.colorOrder).pixelFormat), 1)

\* Level n of the container is a buffer this call allocated, filled from the
\* source level, with rows that carry no padding.
TranscodedLevel(n) ==
    /\ img.mipmaps[n].texels \in Allocated(trace) \ FetchedBufs(tex)
    /\ heap[img.mipmaps[n].texels].live
    /\ img.mipmaps[n].layerWidth = tex.mipmaps[n].layerWidth
    /\ img.mipmaps[n].layerHeight = tex.mipmaps[n].layerHeight
    /\ img.mipmaps[n].dataSize = ((img.mipmaps[n].layerWidth * img.bitDepth + 7) \div 8) * img.mipmaps[n].layerHeight
    /\ heap[img.mipmaps[n].texels].data = Transcoded(GiveBuffers(tex)[tex.mipmaps[n].texels].data, img.mipmaps[n].dataSize)

\* C15: a successful import of an uncompressed Direct3D8/Direct3D9 source
\* keeps the source's level buffers, unchanged, in the container only if
\* the source has no palette, the colour format link reports direct
\* acquisition and no row needs an addressability adjustment; when one of
\* the three fails every level is transcoded into a buffer the call
\* allocated, with unpadded rows, and hasDirectlyAcquired is reported false.
C15_AdoptionDecision ==
    UncompressedImport =>
        /\ SameBuffers(img.mipmaps, tex.mipmaps) =>
              /\ CanAdopt(tex)
              /\ img.mipmaps = tex.mipmaps
              /\ \A b \in LayerBufs(tex.mipmaps) : heap[b] = GiveBuffers(tex)[b]
        /\ (\E n \in 1 .. Len(img.mipmaps) : img.mipmaps[n].texels \in LayerBufs(tex.mipmaps)) =>
              CanAdopt(tex)
        /\ ~CanAdopt(tex) =>
              /\ Len(img.mipmaps) = Len(tex.mipmaps)
              /\ \A n \in 1 .. Len(img.mipmaps) : TranscodedLevel(n)
              /\ feedback = "false"

\* A 5-6-5 source whose link is direct but whose rows are padded to four
\* bytes: both levels were transcoded.
C15_Witness ==
    /\ UncompressedImport
    /\ tex.rasterFormat = "RASTER_565"
    /\ tex.rowAlignment = 4
    /\ Len(img.mipmaps) = 2
    /\ ~CanAdopt(tex)
    /\ \A n \in 1 .. 2 : TranscodedLevel(n)
    /\ feedback = "false"

\* A source with a palette was transcoded.
C15_WitnessPalette == UncompressedImport /\ tex.paletteType # "PALETTE_NONE" /\ feedback = "false"

\* A source with a direct link and unpadded rows was adopted.
C15_WitnessAdopted == UncompressedImport /\ CanAdopt(tex) /\ SameBuffers(img.mipmaps, tex.mipmaps)

\* Some level of the container has a dimension that is no power of two.
NotPowerOfTwo(layers) ==
    \E n \in 1 .. Len(layers) :
        \/ \A k \in 0 .. 16 : layers[n].layerWidth # 2 ^ k
        \/ \A k \in 0 .. 16 : layers[n].layerHeight # 2 ^ k

SizeRuleError == "PVR native image must be power-of-two before compressing to PVRTC"

\* WriteToNativeTexture has just returned from a PowerVR target.
PowerVRExportStep == ret'.op = "WriteToNativeTexture" /\ tex'.name = "PowerVR"

C16_Step ==
    /\ (PowerVRExportStep /\ ~IsPVRTC(img.pixelFormat) /\ NotPowerOfTwo(img.mipmaps)) =>
          /\ ~ret'.ok
          /\ \A i \in 1 .. Len(trace') : trace'[i].e \notin { "alloc", "allocfail" }
          /\ tex'.mipmaps = <<>>
          /\ img' = img
          /\ \A b \in LayerBufs(img.mipmaps) : heap'[b] = heap[b]
    /\ (PowerVRExportStep /\ IsPVRTC(img.pixelFormat)) =>
          /\ ret'.err # SizeRuleError
          /\ ret'.ok => SameBuffers(tex'.mipmaps, img.mipmaps)

\* C16: an export to PowerVR of a container that is not PVRTC and has a level
\* whose dimensions are no powers of two fails with an error, before any
\* buffer is allocated, and leaves the destination texture and the container
\* as they were; a container that is PVRTC is never rejected by the size
\* rules and its levels are taken as they are.
C16_SizeRuleRejection == [][C16_Step]_vars

\* The 3x3 levels of an uncompressed container were rejected by the size rules.
C16_Witness ==
    /\ ExportReturned
    /\ tex.name = "PowerVR"
    /\ ~IsPVRTC(img.pixelFormat)
    /\ NotPowerOfTwo(img.mipmaps)
    /\ ret.err = SizeRuleError
    /\ trace = <<>>

\* A 3x3 PVRTC container was exported to PowerVR as it is.
C16_WitnessPVRTC ==
    /\ ExportReturned
    /\ tex.name = "PowerVR"
    /\ IsPVRTC(img.pixelFormat)
    /\ NotPowerOfTwo(img.mipmaps)
    /\ ret.ok
    /\ SameBuffers(tex.mipmaps, img.mipmaps)

\* The 32-bit word at byte offset 4 * k of the written bytes, in the byte
\* order given.
WordAt(data, k, isLittleEndian) ==
    IF isLittleEndian
    THEN data[4 * k + 1] + 256 * data[4 * k + 2] + 65536 * data[4 * k + 3] + 16777216 * data[4 * k + 4]
    ELSE data[4 * k + 4] + 256 * data[4 * k + 3] + 65536 * data[4 * k + 2] + 16777216 * data[4 * k + 1]

\* The written bytes are a version-2 header of the container followed by
\* its levels.
NormalisedFile(data, image, h) ==
    /\ Len(data) = 52 + TotalSurfaceSize(image.mipmaps, Len(image.mipmaps))
    /\ WordAt(data, 0, image.isLittleEndian) = 52
    /\ WordAt(data, 1, image.isLittleEndian) = image.mipmaps[1].layerHeight
    /\ WordAt(data, 2, image.isLittleEndian) = image.mipmaps[1].layerWidth
    /\ WordAt(data, 3, image.isLittleEndian) = Len(image.mipmaps) - 1
    /\ WordAt(data, 5, image.isLittleEndian) = TotalSurfaceSize(image.mipmaps, Len(image.mipmaps))
    /\ \A k \in 7 .. 10 : WordAt(data, k, image.isLittleEndian) = 0
    /\ WordAt(data, 11, image.isLittleEndian) = 559044176
    /\ WordAt(data, 12, image.isLittleEndian) = 1
    /\ \A n \in 1 .. Len(image.mipmaps) :
          \A i \in 1 .. image.mipmaps[n].dataSize :
              data[52 + TotalSurfaceSize(image.mipmaps, n - 1) + i] = h[image.mipmaps[n].texels].data[i]

C17_Step ==
    ret'.op = "WriteNativeImage" =>
        IF Len(img.mipmaps) >= 1
        THEN ret'.ok /\ stream'.written /\ NormalisedFile(stream'.data, img, heap)
        ELSE ~ret'.ok /\ ~stream'.written /\ stream'.data = <<>>

\* C17: for a container with at least one level, whatever header version it
\* was read from, WriteNativeImage emits the size field 52, a version-2 header
\* with the magic 0x21525650, mipmapCount one less than the number of levels,
\* surfaceSize the sum of the levels' dataSize, width and height of the base
\* level, four zero masks and numberOfSurfaces 1, in the container's byte
\* order, then the levels' bytes in order with nothing between them; for a
\* container without levels it fails and writes nothing.
C17_WriterNormalisation == [][C17_Step]_vars

\* Two levels were written behind a 52-byte header.
C17_Witness ==
    /\ ret.op = "WriteNativeImage"
    /\ ret.ok
    /\ Len(img.mipmaps) = 2
    /\ NormalisedFile(stream.data, img, heap)
    /\ Len(stream.data) > 52 + img.mipmaps[1].dataSize

\* The write of a container without levels failed.
C17_WitnessEmpty == ret.op = "WriteNativeImage" /\ ~ret.ok /\ stream.data = <<>>

\* The messages ReadNativeImage fails with.
HardErrors ==
    { "invalid PVR native image", InvalidFormat,
      "cubemap PVR native images not supported yet",
      "volume texture PVR native images not supported yet",
      "vertically flipped PVR native images not supported yet",
      "twiddled but width and height are not POT and squared",
      "twiddled PVR native images are not supported",
      "invalid image dimensions in PVR native image",
      "too little surface data in PVR native image",
      "stream ended before the data (checkAhead)",
      "failed to allocate mipmap surface",
      "impartial mipmap surface read" }

Warned(msg) == \E i \in 1 .. Len(warnings) : warnings[i] = msg

\* The surface bytes of the levels the container holds.
ConsumedSurface == TotalSurfaceSize(img.mipmaps, Len(img.mipmaps))

\* (a) the header's bitsPerPixel is not the table depth of the format.
DepthAnomaly == hdr.bitsPerPixel # getPVRLegacyFormatDepth(hdr.formatField.pixelFormat)

\* (b) fewer levels were established than the header declares.
\* The header declares one level more than its count field, an unsigned value.
LevelAnomaly == ~uint32_less(hdr.mipmapCount, Len(img.mipmaps))

\* (c) declared surface bytes remain behind the last level.
MetaAnomaly == hdr.surfaceSize > ConsumedSurface

\* C18: ReadNativeImage fails only with one of its hard errors, never for a
\* bitsPerPixel that differs from the format's depth, for levels that could
\* not be established or for declared surface bytes left over; a read that
\* succeeds has pushed a warning for each of these that occurred, holds the
\* levels read so far, and has skipped exactly the left-over byte count.
C18_SoftAnomalies ==
    /\ ReadFailed => ret.err \in HardErrors
    /\ ReadSucceeded =>
          /\ DepthAnomaly <=> Warned("PVR native texture has an invalid bitsPerPixel value")
          /\ LevelAnomaly <=> Warned("PVR native image specified more mipmap layers than could be read")
          /\ MetaAnomaly <=> Warned("PVR native image has surface meta-data")
          /\ MetaAnomaly <=> (\E i \in 1 .. Len(trace) : trace[i].e = "skip")
          /\ \A i \in 1 .. Len(trace) : trace[i].e = "skip" => trace[i].n = hdr.surfaceSize - ConsumedSurface
          /\ stream.pos = hdr.pos + hdr.surfaceSize
          /\ \A n \in 1 .. Len(img.mipmaps) : heap[img.mipmaps[n].texels].live

\* A file with three bytes behind its only level and a wrong bitsPerPixel
\* was loaded with both warnings.
C18_Witness ==
    /\ ReadSucceeded
    /\ DepthAnomaly
    /\ MetaAnomaly
    /\ Len(img.mipmaps) >= 1
    /\ Len(warnings) = 2
    /\ stream.pos = hdr.pos + ConsumedSurface + 3

\* C18 holds for every file whose count field is not 0xFFFFFFFF.
C18_ExceptMaxCount == hdr.mipmapCount # UINT32_MAX => C18_SoftAnomalies

\* A file that declares more levels than its dimensions allow was loaded.
C18_WitnessLevels == ReadSucceeded /\ LevelAnomaly /\ Len(img.mipmaps) >= 1 /\ Len(warnings) >= 1

\* A call has just returned on object o.
ObjectStep(o, call) == rwobjs'[o] # rwobjs[o] /\ rwobjs'[o].call = call

C19_Step ==
    \A o \in DOMAIN rwobjs :
        /\ ObjectStep(o, "ConstructRwObject") =>
              rwobjs'[o].live /\ GetRefCount(rwobjs'[o]) = 1
        /\ ObjectStep(o, "AcquireObject") =>
              /\ GetRefCount(rwobjs'[o]) = GetRefCount(rwobjs[o]) + 1
              /\ rwobjs'[o].live
              /\ rwobjs'[o].destroyed = rwobjs[o].destroyed
        /\ (ObjectStep(o, "ReleaseObject") \/ ObjectStep(o, "DeleteRwObject")) =>
              /\ GetRefCount(rwobjs'[o]) = GetRefCount(rwobjs[o]) - 1
              /\ rwobjs'[o].live <=> GetRefCount(rwobjs'[o]) > 0
              /\ rwobjs'[o].destroyed = rwobjs[o].destroyed + (IF GetRefCount(rwobjs'[o]) = 0 THEN 1 ELSE 0)
        /\ rwobjs'[o].destroyed <= 1
        /\ rwobjs'[o].destroyed = 1 => ~rwobjs'[o].live /\ rwobjs'[o].atShutdown = 0
        /\ rwobjs'[o].live => rwobjs'[o].destroyed = 0 /\ GetRefCount(rwobjs'[o]) >= 1

LibraryStep(call) == lib' # lib /\ lib'.call = call

\* The engines a step constructed.
Constructed == lib'.engines \ lib.engines

C20_Step ==
    /\ lib'.registrations <= 1
    /\ lib'.registrations # lib.registrations =>
          /\ LibraryStep("CreateEngine")
          /\ ~lib.hasInitialized
          /\ VerifyLibraryIntegrity(lib)
          /\ lib.registrations = 0
    /\ (LibraryStep("CreateEngine") /\ lib.hasInitialized) =>
          /\ lib'.registrations = lib.registrations
          /\ lib'.hasInitialized
          /\ lib.engines \subseteq lib'.engines
          /\ Constructed \subseteq { Engine(lib'.engineOut, lib'.theVersion) }
    /\ LibraryStep("DeleteEngine") =>
          /\ lib'.hasInitialized = lib.hasInitialized
          /\ lib'.registrations = lib.registrations
          /\ lib'.asserted
          /\ Constructed = {}
    /\ lib.hasInitialized => lib'.hasInitialized
    /\ Constructed # {} => lib'.hasInitialized /\ lib'.registrations = 1
    /\ lib'.engines # {} => lib'.hasInitialized

\* C20: over any sequence of CreateEngine and DeleteEngine calls the
\* registration block runs at most once, in the first CreateEngine call that
\* passes VerifyLibraryIntegrity; a later CreateEngine only constructs an
\* engine and sets its version; DeleteEngine leaves the initialised flag as
\* it is; no engine is constructed while the flag is false.
C20_InitialiseOnce == [][C20_Step]_vars

\* After an engine was created and deleted, two more were created with
\* different versions: the registration block has run once.
C20_Witness ==
    /\ lib.registrations = 1
    /\ lib.call = "CreateEngine"
    /\ Cardinality(lib.engines) = 2
    /\ \E a \in lib.engines, b \in lib.engines : a.version # b.version

\* In a build whose integrity check fails no engine is ever constructed.
C20_WitnessNoEngine == ~lib.integrity /\ lib.call = "CreateEngine" /\ lib.engines = {} /\ ~lib.hasInitialized

----------------------------------------------------------------------------
(* Claims about the loaded container *)

\* v is logical rounded up to a multiple of block.
RoundedUpTo(v, logical, block) == v % block = 0 /\ v >= logical /\ v - logical < block

\* The block a format stores its texels in; 1 x 1 for raw samples.
SurfaceBlock(format) ==
    IF format \in { V_Y1_U_Y0, Y1_V_Y0_U, UYVY, YUY2 } THEN [w |-> 2, h |-> 2]
    ELSE IF format \in { DXT1, DXT2, DXT3, DXT4, DXT5, ETC } THEN [w |-> 4, h |-> 4]
    ELSE IF format \in { PVRTC2, PVRTC2_SEC } THEN [w |-> 16, h |-> 8]
    ELSE IF format \in { PVRTC4, PVRTC4_SEC } THEN [w |-> 8, h |-> 8]
    ELSE [w |-> 1, h |-> 1]

\* Level k (from 1) of a loaded container against the parsed header.
LayerInvariant(layer, k, header) ==
    /\ layer.layerWidth = LevelDim(header.width, k - 1)
    /\ layer.layerHeight = LevelDim(header.height, k - 1)
    /\ layer.width >= layer.layerWidth
    /\ layer.height >= layer.layerHeight
    /\ RoundedUpTo(layer.width, layer.layerWidth, SurfaceBlock(header.formatField.pixelFormat).w)
    /\ RoundedUpTo(layer.height, layer.layerHeight, SurfaceBlock(header.formatField.pixelFormat).h)
    /\ layer.dataSize
         = ((layer.width * getPVRLegacyFormatDepth(header.formatField.pixelFormat) + 7) \div 8)
           * layer.height

\* C21: after a successful ReadNativeImage level k of the container has the
\* k-th halving of the header's width and height as logical dimensions,
\* surface dimensions that are the logical ones rounded up to the format's
\* block (1 for raw samples, 2 for the YUV formats, 4 for DXT1-5 and ETC,
\* the PVRTC block for PVRTC), and a dataSize of rowSize(surface width,
\* format depth) x surface height with rows aligned to 1 byte.
C21_LayerInvariant ==
    ReadSucceeded =>
        \A k \in 1 .. Len(img.mipmaps) : LayerInvariant(img.mipmaps[k], k, hdr)

\* A 3 x 3 DXT1 image loaded with its 1 x 1 level: both surfaces are 4 x 4.
C21_Witness ==
    /\ ReadSucceeded
    /\ img.pixelFormat = DXT1
    /\ Len(img.mipmaps) = 2
    /\ img.mipmaps[1].layerWidth = 3 /\ img.mipmaps[1].width = 4
    /\ img.mipmaps[2].layerWidth = 1 /\ img.mipmaps[2].width = 4
    /\ img.mipmaps[2].dataSize = 8

\* A 4 x 2 raw image loaded with all its levels: 4 x 2, 2 x 1, 1 x 1.
C21_WitnessRaw ==
    /\ ReadSucceeded
    /\ img.pixelFormat = ARGB_8888
    /\ Len(img.mipmaps) = 3
    /\ img.mipmaps[2].width = 2 /\ img.mipmaps[2].height = 1
    /\ img.mipmaps[3].width = 1 /\ img.mipmaps[3].dataSize = 4

\* A PVRTC image of 2 bits per pixel: 16 x 8 blocks.
C21_WitnessPVRTC ==
    /\ ReadSucceeded
    /\ img.pixelFormat = PVRTC2_SEC
    /\ img.mipmaps[1].layerWidth = 4 /\ img.mipmaps[1].layerHeight = 2
    /\ img.mipmaps[1].width = 16 /\ img.mipmaps[1].height = 8

----------------------------------------------------------------------------
(* Claims about the export to the PowerVR native texture *)

\* WriteToNativeTexture has stored layers in a PowerVR native texture.
PowerVRExported ==
    /\ ExportReturned
    /\ ret.ok
    /\ tex.name = "PowerVR"
    /\ Len(img.mipmaps) > 0

\* Destination level against the level handed over: everything but the
\* logical dimensions.
SameSurface(dst, src) ==
    /\ dst.width = src.width
    /\ dst.height = src.height
    /\ dst.texels = src.texels
    /\ dst.dataSize = src.dataSize

SameLogical(dst, src) ==
    /\ dst.layerWidth = src.layerWidth
    /\ dst.layerHeight = src.layerHeight

\* C22: after a successful WriteToNativeTexture with target PowerVR the
\* destination has as many levels as the container and each level has the
\* surface size, the logical layerWidth and layerHeight, the texel buffer
\* and the data size of the level handed over: the container's own level
\* when it is already PVRTC, else the compressed level, whose logical
\* dimensions are the container level's.
C22_ExportGeometry ==
    PowerVRExported =>
        /\ Len(tex.mipmaps) = Len(img.mipmaps)
        /\ \A n \in 1 .. Len(tex.mipmaps) :
              /\ n <= Len(img.mipmaps)
              /\ SameLogical(tex.mipmaps[n], img.mipmaps[n])
              /\ IsPVRTC(img.pixelFormat) => SameSurface(tex.mipmaps[n], img.mipmaps[n])
              /\ ~IsPVRTC(img.pixelFormat) =>
                    /\ tex.mipmaps[n].texels \in Allocated(trace)
                    /\ tex.mipmaps[n].width >= tex.mipmaps[n].layerWidth
                    /\ tex.mipmaps[n].height >= tex.mipmaps[n].layerHeight

\* A PVRTC container with a 4 x 2 base level stored in a PowerVR texture.
C22_Witness ==
    /\ PowerVRExported
    /\ IsPVRTC(img.pixelFormat)
    /\ img.mipmaps[1].layerWidth = 4
    /\ img.mipmaps[1].layerHeight = 2

\* The part of C22 that the code keeps: the level count, and everything but
\* layerWidth.
C22_AllButLayerWidth ==
    PowerVRExported =>
        /\ Len(tex.mipmaps) = Len(img.mipmaps)
        /\ \A n \in 1 .. Len(tex.mipmaps) :
              /\ n <= Len(img.mipmaps)
              /\ tex.mipmaps[n].layerHeight = img.mipmaps[n].layerHeight
              /\ tex.mipmaps[n].layerWidth = img.mipmaps[n].layerHeight
              /\ IsPVRTC(img.pixelFormat) => SameSurface(tex.mipmaps[n], img.mipmaps[n])
              /\ ~IsPVRTC(img.pixelFormat) => tex.mipmaps[n].texels \in Allocated(trace)

\* The values the call handed to GetRecommendedPVRCompressionFormat.
RecommendedWith(tr) == { tr[i].n : i \in { j \in 1 .. Len(tr) : tr[j].e = "recommend" } }

\* The results of the alpha scans of the call.
AlphaScans(tr) == { tr[i].n : i \in { j \in 1 .. Len(tr) : tr[j].e = "alphascan" } }

\* C23: a PowerVR export that compresses a container that is not PVRTC gives
\* the destination the hasAlpha flag that the scan of the decoded base level
\* found (false when the staging format has no alpha channel), the value it
\* passed to the recommender; an export of a PVRTC container gives it the
\* container's hasAlphaChannel_pvrtc.
C23_AlphaFlag ==
    PowerVRExported =>
        IF IsPVRTC(img.pixelFormat)
        THEN tex.hasAlpha = img.hasAlphaChannel_pvrtc
        ELSE /\ RecommendedWith(trace) = { Bit(tex.hasAlpha) }
             /\ AlphaScans(trace) \subseteq { Bit(tex.hasAlpha) }
             /\ AlphaScans(trace) = {} => ~tex.hasAlpha

\* A raw container with alpha compressed for a PowerVR texture, the scan
\* having found alpha.
C23_Witness ==
    /\ PowerVRExported
    /\ img.pixelFormat = ARGB_8888
    /\ AlphaScans(trace) = { 1 }
    /\ RecommendedWith(trace) = { 1 }

\* A format without alpha channel: no scan, the recommender is given false.
C23_WitnessNoAlpha ==
    /\ PowerVRExported
    /\ ~IsPVRTC(img.pixelFormat)
    /\ AlphaScans(trace) = {}
    /\ RecommendedWith(trace) = { 0 }

\* The part of C23 that the code keeps: a PVRTC container passes its flag on,
\* and the recommender is given the result of the scan.
C23_DirectAndRecommender ==
    PowerVRExported =>
        IF IsPVRTC(img.pixelFormat)
        THEN tex.hasAlpha = img.hasAlphaChannel_pvrtc
        ELSE /\ Cardinality(RecommendedWith(trace)) = 1
             /\ AlphaScans(trace) \subseteq RecommendedWith(trace)
             /\ AlphaScans(trace) = {} => RecommendedWith(trace) = { 0 }

----------------------------------------------------------------------------
(* Claims about the buffers of an export *)

\* Buffer b was allocated by the call and freed by it, once.
FreedOnce(b) == ~heap[b].live /\ FreeCount(trace, b) = 1

\* Buffer b was allocated by the call and is held by the native texture.
TakenByTexture(b) == heap[b].live /\ FreeCount(trace, b) = 0 /\ b \in LayerBufs(tex.mipmaps)

\* C24: when WriteToNativeTexture returns or throws, every buffer the call
\* allocated has been freed exactly once or, on success only, is referenced
\* by the destination native texture; none is freed twice, none is freed
\* while the destination references it, none stays allocated without owner.
C24_ExportBuffers ==
    ExportReturned =>
        /\ \A b \in Allocated(trace) :
              IF ret.ok
              THEN (FreedOnce(b) /\ b \notin LayerBufs(tex.mipmaps)) \/ TakenByTexture(b)
              ELSE FreedOnce(b)
        /\ \A i \in 1 .. Len(trace) : trace[i].e # "badfree"
        /\ \A b \in LayerBufs(tex.mipmaps) : heap[b].live /\ b \notin Freed(trace)
        /\ LiveBufs(heap) \subseteq LayerBufs(img.mipmaps) \cup LayerBufs(tex.mipmaps)

\* DXT -> raw -> PVRTC failing at level 1 of the compression: the raw
\* levels and the compressed level 0 were allocated and are all freed.
C24_Witness ==
    /\ ExportReturned
    /\ ~ret.ok
    /\ tex.name = "PowerVR"
    /\ getPVRLegacyFormatDXTType(img.pixelFormat) # 0
    /\ Len(img.mipmaps) >= 2
    /\ Cardinality(Allocated(trace)) >= Len(img.mipmaps) + 1
    /\ trace[Len(trace)].e = "free"
    /\ \E i \in 1 .. Len(trace) : trace[i].e = "allocfail" /\ trace[i].lvl = 1

\* DXT -> raw -> PVRTC succeeding: the raw levels are freed, the compressed
\* ones are in the texture.
C24_WitnessTwoStep ==
    /\ PowerVRExported
    /\ getPVRLegacyFormatDXTType(img.pixelFormat) # 0
    /\ Len(img.mipmaps) >= 2
    /\ Cardinality(Freed(trace)) = Len(img.mipmaps)
    /\ LayerBufs(tex.mipmaps) = Allocated(trace) \ Freed(trace)

\* A Direct3D texture that copied the converted layers: they are freed.
C24_WitnessCopied ==
    /\ ExportReturned
    /\ ret.ok
    /\ tex.name \in Direct3D
    /\ Allocated(trace) # {}
    /\ Freed(trace) = Allocated(trace)
    /\ LayerBufs(tex.mipmaps) # {}

----------------------------------------------------------------------------
(* Claims about ClearImageData *)

\* The state a constructed container is in.
Constructed_pvrNativeImage(image) ==
    /\ Len(image.mipmaps) = 0
    /\ image.pixelFormat = ARGB_4444
    /\ ~image.dataIsTwiddled
    /\ ~image.containsNormalData
    /\ ~image.hasBorder
    /\ ~image.isCubeMap
    /\ ~image.mipmapsHaveDebugColoring
    /\ ~image.isVolumeTexture
    /\ ~image.hasAlphaChannel_pvrtc
    /\ ~image.isVerticallyFlipped
    /\ image.bitDepth = 0
    /\ image.isLittleEndian

C25_Step ==
    ret'.op = "ClearImageData" =>
        /\ Constructed_pvrNativeImage(img')
        /\ ret'.err = "deallocate" =>
              /\ \A b \in LayerBufs(img.mipmaps) : ~heap'[b].live
              /\ Freed(trace') = LayerBufs(img.mipmaps)
              /\ \A b \in LayerBufs(img.mipmaps) : FreeCount(trace', b) = 1
        /\ ret'.err = "keep" =>
              /\ \A b \in LayerBufs(img.mipmaps) : heap'[b] = heap[b]
              /\ Freed(trace') = {}

\* C25: ClearImageData leaves the container, whatever it held, with zero
\* levels, pixel format ARGB_4444, every flag false, bit depth 0 and
\* little-endian; the level buffers are freed when deallocate is true and
\* only dropped from the container when it is false.
C25_ClearResets == [][C25_Step]_vars

\* A deallocating clear of a container that held two levels.
C25_Witness ==
    /\ ret.op = "ClearImageData"
    /\ ret.err = "deallocate"
    /\ Cardinality(Freed(trace)) = 2
    /\ LiveBufs(heap) = {}
    /\ Constructed_pvrNativeImage(img)

\* A clear that keeps the buffers of the two levels it dropped.
C25_WitnessKeep ==
    /\ ret.op = "ClearImageData"
    /\ ret.err = "keep"
    /\ Cardinality(LiveBufs(heap)) = 2
    /\ trace = <<>>
    /\ Constructed_pvrNativeImage(img)

----------------------------------------------------------------------------
(* Claims about the mipmap count *)

\* C26: after a successful ReadNativeImage the container holds at least
\* one level, whatever 32-bit value the header's mipmap-count field holds,
\* 0xFFFFFFFF included; so WriteNativeImage never rejects a container that
\* was loaded successfully as empty.
C26_LoadedNotEmpty == ReadSucceeded => Len(img.mipmaps) >= 1

\* A file with the count field 0xFFFFFFFF and the bytes of a base level
\* behind the header has been read.
C26_Witness ==
    /\ ReadSucceeded
    /\ hdr.ok
    /\ hdr.mipmapCount = UINT32_MAX
    /\ hdr.surfaceSize = 16
    /\ Len(stream.data) = hdr.pos + 16

C26_WriteStep ==
    (ReadSucceeded /\ Len(img.mipmaps) >= 1 /\ ret'.op = "WriteNativeImage") => ret'.ok

\* The part of C26 that the code keeps: a loaded container with at least
\* one level is never rejected by WriteNativeImage.
C26_NonEmptyIsWritten == [][C26_WriteStep]_vars

\* Every count field from 0 to MaxMip gives at least one level.
C26_SmallCounts ==
    (ReadSucceeded /\ hdr.mipmapCount >= 0) => Len(img.mipmaps) >= 1

----------------------------------------------------------------------------
(* Claims about the probe *)

\* C27: whenever ReadNativeImage succeeds on a stream content,
\* IsStreamNativeImage run on the same content from the stream start
\* returns true: the probe never rejects a file the loader accepts.
C27_ProbeAcceptsLoaded == ReadSucceeded => IsStreamNativeImage(stream.data)

\* A version-1 file with two levels has been loaded, and the probe accepts it.
C27_Witness ==
    /\ ReadSucceeded
    /\ hdr.pos = HeaderSizeVer1
    /\ Len(img.mipmaps) = 2
    /\ IsStreamNativeImage(stream.data)

\* The probe accepts more than the loader: a file the probe answered true
\* for carries a flag that ReadNativeImage rejects.
C27_WitnessProbeOnly ==
    /\ ret.op = "IsStreamNativeImage"
    /\ ret.ok
    /\ UnsupportedBit(hdr.formatField)

----------------------------------------------------------------------------
(* Claims about the format tables *)

\* C28: whenever getPVRLegacyRawColorFormatLink reports direct acquisition
\* for a raster format, depth and colour order, the PVR format it selects
\* has that depth in getPVRLegacyFormatDepth, and getPVRRasterFormatMapping
\* maps it, little-endian, directly back to the same raster format and,
\* unless the raster format is a luminance one, the same colour order.
C28_TablesConsistent ==
    (calc.call = "link" /\ calc.canDirectlyAcquire) =>
        /\ calc.pvrDepth = calc.depth
        /\ calc.mapping.isDirectMapping
        /\ calc.mapping.compressionType = "RWCOMPRESS_NONE"
        /\ calc.mapping.rasterFormat = calc.rasterFormat
        /\ calc.rasterFormat \notin { "RASTER_LUM", "RASTER_LUM_ALPHA" } =>
               calc.mapping.colorOrder = calc.colorOrder

\* 32-bit BGRA raster data is linked to BGRA_8888 for direct acquisition.
C28_Witness ==
    /\ calc.call = "link"
    /\ calc.canDirectlyAcquire
    /\ calc.rasterFormat = "RASTER_8888"
    /\ calc.colorOrder = "COLOR_BGRA"
    /\ calc.pixelFormat = BGRA_8888
    /\ calc.mapping.colorOrder = "COLOR_BGRA"

\* Luminance data is linked directly whatever its colour order is, and the
\* mapping back names COLOR_RGBA.
C28_WitnessLuminance ==
    /\ calc.call = "link"
    /\ calc.canDirectlyAcquire
    /\ calc.rasterFormat = "RASTER_LUM_ALPHA"
    /\ calc.colorOrder = "COLOR_ABGR"
    /\ calc.mapping.colorOrder = "COLOR_RGBA"

\* The bytes of the blocks the endian swap copies are the bytes of the level.
LevelIsItsBlocks ==
    /\ uint32_div(calc.dataSize, dxtBlockSize(calc.pixelFormat)) = calc.dxtBlocksCount
    /\ uint32_mod(calc.dataSize, dxtBlockSize(calc.pixelFormat)) = 0

\* C29: for every DXT format and every logical size, the byte size of a
\* level, derived as row size times surface height, is the number of 4x4
\* blocks of the surface times the bytes of a block, so that the endian
\* swap, which runs over that many blocks, stays within dataSize bytes.
C29_LevelIsItsBlocks == calc.call = "level" => LevelIsItsBlocks

\* A DXT5 level of 65536 x 65536 texels: 2^28 blocks, and a size of 0.
C29_Witness ==
    /\ calc.call = "level"
    /\ calc.pixelFormat = DXT5
    /\ calc.layerWidth = 65536
    /\ calc.layerHeight = 65536
    /\ calc.dxtBlocksCount = 268435456
    /\ calc.dataSize = 0

\* The bytes of the blocks fit an unsigned 32-bit value.
SizeFitsWord == calc.dxtBlocksCount < 2 * (2147483647 \div dxtBlockSize(calc.pixelFormat) + 1)

\* The part of C29 the code keeps: a level whose blocks take less than
\* 2^32 bytes has exactly the size of its blocks.
C29_WhenSizeFits == (calc.call = "level" /\ SizeFitsWord) => LevelIsItsBlocks

\* A DXT1 level of 5 x 9 texels takes the 6 blocks of its 8 x 12 surface.
C29_WitnessSmall ==
    /\ calc.call = "level"
    /\ calc.pixelFormat = DXT1
    /\ calc.layerWidth = 5
    /\ calc.layerHeight = 9
    /\ calc.dxtBlocksCount = 6
    /\ calc.dataSize = 48

----------------------------------------------------------------------------
(* Claims about the warning routing *)

TopHandler == iface.warningHandlerStack[Len(iface.warningHandlerStack)]

\* The sink a warning pushed now is due to; NULL when it is due to nobody.
DueSink ==
    IF iface.warningLevel <= 0 THEN NULL
    ELSE IF iface.warningHandlerStack # <<>> THEN TopHandler
    ELSE iface.warningManager

C30_Step ==
    IF iface'.call = "PushWarning"
    THEN \E message \in Messages : \A s \in Sinks :
            iface'.received[s] = IF s = DueSink THEN Append(iface.received[s], message)
                                 ELSE iface.received[s]
    ELSE iface'.received = iface.received

\* C30: over any sequence of GlobalPushWarningHandler,
\* GlobalPopWarningHandler, SetWarningLevel, SetWarningManager and
\* PushWarning calls, a PushWarning delivers its message to at most one
\* sink: to nobody at a warning level of 0 or less, otherwise to the handler
\* pushed last and not popped, otherwise to the installed warning manager;
\* no other call delivers anything.
C30_WarningRouting == [][C30_Step]_vars

\* Two different handlers are stacked over an installed manager; the upper
\* handler has received the one message and nobody else has.
C30_Witness ==
    /\ iface.call = "PushWarning"
    /\ iface.warningLevel > 0
    /\ iface.warningManager # NULL
    /\ Len(iface.warningHandlerStack) = 2
    /\ iface.warningHandlerStack[1] # iface.warningHandlerStack[2]
    /\ Len(iface.received[TopHandler]) = 1
    /\ CountReceived(iface.received, Sinks) = 1

\* After the handlers were popped, the manager has received a message.
C30_WitnessManager ==
    /\ iface.call = "PushWarning"
    /\ iface.warningHandlerStack = <<>>
    /\ iface.warningManager # NULL
    /\ Len(iface.received[iface.warningManager]) = 1
    /\ \E h \in WarningHandlers : Len(iface.received[h]) = 1

====
